---- MODULE Spec2Model ----
(***************************************************************************)
(* Agent workshop: capability units (planner, quizMaster, tutor, analyst), *)
(* the artifact channel they write (dataStream), the client reducer        *)
(* (DataStreamHandler) and the document store (saveDocument).              *)
(***************************************************************************)
EXTENDS Integers, Sequences, FiniteSets, TLC

VARIABLES
    session,     \* session?.user?.id of the request ("none" when unauthenticated)
    pc,          \* per invocation: position inside execute
    agent,       \* per invocation: the tool the orchestrator invoked
    topic,       \* per invocation: the topic / content argument
    object,      \* per invocation: the object generateObject produced
    result,      \* per invocation: what execute gave back to the caller
    dataStream,  \* the parts written with dataStream.write that the client has
                 \* not handled yet, in write order
    artifact,    \* the client's artifact state (useArtifact)
    documents,   \* the "documents" collection, in insertion order
    now,         \* what `new Date()` gives on the server, in milliseconds
    objectIds,   \* how many ObjectIds `new ObjectId()` has handed out
    artifactDefinitions,  \* the kinds registered in artifactDefinitions
    console,     \* whether DataStreamHandler has called console.warn / console.error
    weather,     \* the Chapter 1 getWeather tool: position in execute, input,
                 \* requests fetched, what it returned
    flashcardViewer,   \* FlashcardViewer: its content prop and useState values
    studyPlanViewer,   \* StudyPlanViewer: its content prop, the parsed data of the
                       \* render and what it passed to onSaveContent
    storeCalls,  \* calls of the store that have awaited part of their work
    streamText   \* the streamText call of the POST handler: steps run so far, the
                 \* last step's finish reason and tool call, chunks streamed

vars == <<session, pc, agent, topic, object, result, dataStream, artifact, documents,
          now, objectIds, artifactDefinitions, console, streamText, storeCalls,
          weather, flashcardViewer, studyPlanViewer>>

\* ---------------------------------------------------------------- bounds
MaxInvocations == 2
MaxDocuments == 3     \* records the store's callers insert in one behaviour
MaxClock == MaxDocuments - 1    \* milliseconds the clock advances in one behaviour

Invocations == 1..MaxInvocations

ArtifactAgents == {"planner", "quiz-master"}
DirectAgents == {"tutor", "analyst"}
Agents == ArtifactAgents \cup DirectAgents
Topics == {"js"}
Sessions == {"none", "user-1"}

\* What a rejected downstream call can carry: an Error with a message, or a
\* thrown value that is no Error.
Thrown == {[isError |-> TRUE, message |-> "overloaded"],
           [isError |-> FALSE, message |-> ""]}

\* ------------------------------------------------------- JSON (tokens)
\* JSON.stringify(object, null, 2) and JSON.parse, on the token level; the
\* indentation JSON.stringify adds is whitespace JSON.parse skips.
\* A JavaScript number: an integer, or an integer and a half (the numbers a
\* z.number() accepts are not only the integers).
Whole(n) == [int |-> n, half |-> FALSE]
AndAHalf(n) == [int |-> n, half |-> TRUE]

Tok(k, s, n) == [k |-> k, s |-> s, n |-> n]
Punct(s) == Tok("punct", s, Whole(0))
Str(s) == Tok("string", s, Whole(0))
Num(n) == Tok("number", "", n)
Bool(b) == Tok("bool", IF b THEN "true" ELSE "false", Whole(0))
Member(key) == <<Str(key), Punct(":")>>

RECURSIVE JoinComma(_)
JoinComma(parts) ==
    IF Len(parts) = 0 THEN <<>>
    ELSE IF Len(parts) = 1 THEN parts[1]
    ELSE parts[1] \o <<Punct(",")>> \o JoinComma(Tail(parts))

StringifyArray(parts) == <<Punct("[")>> \o JoinComma(parts) \o <<Punct("]")>>
StringifyObject(members) == <<Punct("{")>> \o JoinComma(members) \o <<Punct("}")>>
StringifyStrings(ss) == StringifyArray([i \in 1..Len(ss) |-> <<Str(ss[i])>>])

StringifyQuestion(q) ==
    StringifyObject(<<
        Member("question") \o <<Str(q.question)>>,
        Member("options") \o StringifyStrings(q.options),
        Member("correctAnswer") \o <<Num(q.correctAnswer)>>,
        Member("explanation") \o <<Str(q.explanation)>> >>)

StringifyFlashcard(o) ==
    StringifyObject(<<
        Member("topic") \o <<Str(o.topic)>>,
        Member("questions") \o
            StringifyArray([i \in 1..Len(o.questions) |-> StringifyQuestion(o.questions[i])]) >>)

StringifyTask(t) ==
    StringifyObject(<<
        Member("task") \o <<Str(t.task)>>,
        Member("duration") \o <<Str(t.duration)>>,
        Member("completed") \o <<Bool(t.completed)>> >>)

StringifyWeek(w) ==
    StringifyObject(<<
        Member("week") \o <<Num(w.week)>>,
        Member("title") \o <<Str(w.title)>>,
        Member("goals") \o StringifyStrings(w.goals),
        Member("tasks") \o StringifyArray([i \in 1..Len(w.tasks) |-> StringifyTask(w.tasks[i])]),
        Member("resources") \o StringifyStrings(w.resources) >>)

StringifyStudyPlan(o) ==
    StringifyObject(<<
        Member("topic") \o <<Str(o.topic)>>,
        Member("duration") \o <<Str(o.duration)>>,
        Member("overview") \o <<Str(o.overview)>>,
        Member("weeks") \o StringifyArray([i \in 1..Len(o.weeks) |-> StringifyWeek(o.weeks[i])]),
        Member("tips") \o StringifyStrings(o.tips) >>)

\* JSON.parse: recursive descent over the tokens; ok = FALSE is the SyntaxError.
ParseError == [ok |-> FALSE, val |-> <<>>, next |-> 0]
At(toks, i) == IF i \in 1..Len(toks) THEN toks[i] ELSE Tok("eof", "", Whole(0))
IsPunct(toks, i, s) == At(toks, i).k = "punct" /\ At(toks, i).s = s
IsString(toks, i) == At(toks, i).k = "string"
IsNumber(toks, i) == At(toks, i).k = "number"
IsBool(toks, i) == At(toks, i).k = "bool"
IsMember(toks, i, key) == IsString(toks, i) /\ At(toks, i).s = key /\ IsPunct(toks, i + 1, ":")

RECURSIVE ParseStringItems(_, _, _)
ParseStringItems(toks, i, acc) ==
    IF ~IsString(toks, i) THEN ParseError
    ELSE IF IsPunct(toks, i + 1, ",") THEN ParseStringItems(toks, i + 2, Append(acc, At(toks, i).s))
    ELSE IF IsPunct(toks, i + 1, "]")
         THEN [ok |-> TRUE, val |-> Append(acc, At(toks, i).s), next |-> i + 2]
    ELSE ParseError

ParseStrings(toks, i) ==
    IF ~IsPunct(toks, i, "[") THEN ParseError
    ELSE IF IsPunct(toks, i + 1, "]") THEN [ok |-> TRUE, val |-> <<>>, next |-> i + 2]
    ELSE ParseStringItems(toks, i + 1, <<>>)

ParseQuestion(toks, i) ==
    IF ~(/\ IsPunct(toks, i, "{")
         /\ IsMember(toks, i + 1, "question") /\ IsString(toks, i + 3)
         /\ IsPunct(toks, i + 4, ",")
         /\ IsMember(toks, i + 5, "options"))
    THEN ParseError
    ELSE LET opts == ParseStrings(toks, i + 7)
             j == opts.next
         IN  IF ~(/\ opts.ok
                  /\ IsPunct(toks, j, ",")
                  /\ IsMember(toks, j + 1, "correctAnswer") /\ IsNumber(toks, j + 3)
                  /\ IsPunct(toks, j + 4, ",")
                  /\ IsMember(toks, j + 5, "explanation") /\ IsString(toks, j + 7)
                  /\ IsPunct(toks, j + 8, "}"))
             THEN ParseError
             ELSE [ok |-> TRUE,
                   val |-> [question |-> At(toks, i + 3).s,
                            options |-> opts.val,
                            correctAnswer |-> At(toks, j + 3).n,
                            explanation |-> At(toks, j + 7).s],
                   next |-> j + 9]

RECURSIVE ParseQuestionItems(_, _, _)
ParseQuestionItems(toks, i, acc) ==
    LET q == ParseQuestion(toks, i)
    IN  IF ~q.ok THEN ParseError
        ELSE IF IsPunct(toks, q.next, ",")
             THEN ParseQuestionItems(toks, q.next + 1, Append(acc, q.val))
        ELSE IF IsPunct(toks, q.next, "]")
             THEN [ok |-> TRUE, val |-> Append(acc, q.val), next |-> q.next + 1]
        ELSE ParseError

ParseQuestions(toks, i) ==
    IF ~IsPunct(toks, i, "[") THEN ParseError
    ELSE IF IsPunct(toks, i + 1, "]") THEN [ok |-> TRUE, val |-> <<>>, next |-> i + 2]
    ELSE ParseQuestionItems(toks, i + 1, <<>>)

ParseFlashcard(toks) ==
    IF ~(/\ IsPunct(toks, 1, "{")
         /\ IsMember(toks, 2, "topic") /\ IsString(toks, 4)
         /\ IsPunct(toks, 5, ",")
         /\ IsMember(toks, 6, "questions"))
    THEN ParseError
    ELSE LET qs == ParseQuestions(toks, 8)
         IN  IF ~(qs.ok /\ IsPunct(toks, qs.next, "}") /\ qs.next = Len(toks))
             THEN ParseError
             ELSE [ok |-> TRUE,
                   val |-> [topic |-> At(toks, 4).s, questions |-> qs.val],
                   next |-> qs.next + 1]

ParseTask(toks, i) ==
    IF ~(/\ IsPunct(toks, i, "{")
         /\ IsMember(toks, i + 1, "task") /\ IsString(toks, i + 3)
         /\ IsPunct(toks, i + 4, ",")
         /\ IsMember(toks, i + 5, "duration") /\ IsString(toks, i + 7)
         /\ IsPunct(toks, i + 8, ",")
         /\ IsMember(toks, i + 9, "completed") /\ IsBool(toks, i + 11)
         /\ IsPunct(toks, i + 12, "}"))
    THEN ParseError
    ELSE [ok |-> TRUE,
          val |-> [task |-> At(toks, i + 3).s,
                   duration |-> At(toks, i + 7).s,
                   completed |-> (At(toks, i + 11).s = "true")],
          next |-> i + 13]

\* Body applied to the value once it has been computed: const x = value.
Bind(value, Body(_)) == CHOOSE r \in {Body(x) : x \in {value}} : TRUE

RECURSIVE ParseTaskItems(_, _, _)
ParseTaskItems(toks, i, acc) ==
    Bind(ParseTask(toks, i), LAMBDA t :
        IF ~t.ok THEN ParseError
        ELSE IF IsPunct(toks, t.next, ",")
             THEN ParseTaskItems(toks, t.next + 1, Append(acc, t.val))
        ELSE IF IsPunct(toks, t.next, "]")
             THEN [ok |-> TRUE, val |-> Append(acc, t.val), next |-> t.next + 1]
        ELSE ParseError)

ParseTasks(toks, i) ==
    IF ~IsPunct(toks, i, "[") THEN ParseError
    ELSE IF IsPunct(toks, i + 1, "]") THEN [ok |-> TRUE, val |-> <<>>, next |-> i + 2]
    ELSE ParseTaskItems(toks, i + 1, <<>>)

ParseWeek(toks, i) ==
    IF ~(/\ IsPunct(toks, i, "{")
         /\ IsMember(toks, i + 1, "week") /\ IsNumber(toks, i + 3)
         /\ IsPunct(toks, i + 4, ",")
         /\ IsMember(toks, i + 5, "title") /\ IsString(toks, i + 7)
         /\ IsPunct(toks, i + 8, ",")
         /\ IsMember(toks, i + 9, "goals"))
    THEN ParseError
    ELSE Bind(ParseStrings(toks, i + 11), LAMBDA goals :
         IF ~(goals.ok /\ IsPunct(toks, goals.next, ",")
                       /\ IsMember(toks, goals.next + 1, "tasks"))
         THEN ParseError
         ELSE Bind(ParseTasks(toks, goals.next + 3), LAMBDA tasks :
              IF ~(tasks.ok /\ IsPunct(toks, tasks.next, ",")
                            /\ IsMember(toks, tasks.next + 1, "resources"))
              THEN ParseError
              ELSE Bind(ParseStrings(toks, tasks.next + 3), LAMBDA res :
                   IF ~(res.ok /\ IsPunct(toks, res.next, "}"))
                   THEN ParseError
                   ELSE [ok |-> TRUE,
                         val |-> [week |-> At(toks, i + 3).n,
                                  title |-> At(toks, i + 7).s,
                                  goals |-> goals.val,
                                  tasks |-> tasks.val,
                                  resources |-> res.val],
                         next |-> res.next + 1])))

RECURSIVE ParseWeekItems(_, _, _)
ParseWeekItems(toks, i, acc) ==
    Bind(ParseWeek(toks, i), LAMBDA w :
        IF ~w.ok THEN ParseError
        ELSE IF IsPunct(toks, w.next, ",")
             THEN ParseWeekItems(toks, w.next + 1, Append(acc, w.val))
        ELSE IF IsPunct(toks, w.next, "]")
             THEN [ok |-> TRUE, val |-> Append(acc, w.val), next |-> w.next + 1]
        ELSE ParseError)

ParseWeeks(toks, i) ==
    IF ~IsPunct(toks, i, "[") THEN ParseError
    ELSE IF IsPunct(toks, i + 1, "]") THEN [ok |-> TRUE, val |-> <<>>, next |-> i + 2]
    ELSE ParseWeekItems(toks, i + 1, <<>>)

ParseStudyPlan(toks) ==
    IF ~(/\ IsPunct(toks, 1, "{")
         /\ IsMember(toks, 2, "topic") /\ IsString(toks, 4)
         /\ IsPunct(toks, 5, ",")
         /\ IsMember(toks, 6, "duration") /\ IsString(toks, 8)
         /\ IsPunct(toks, 9, ",")
         /\ IsMember(toks, 10, "overview") /\ IsString(toks, 12)
         /\ IsPunct(toks, 13, ",")
         /\ IsMember(toks, 14, "weeks"))
    THEN ParseError
    ELSE Bind(ParseWeeks(toks, 16), LAMBDA weeks :
         IF ~(weeks.ok /\ IsPunct(toks, weeks.next, ",")
                       /\ IsMember(toks, weeks.next + 1, "tips"))
         THEN ParseError
         ELSE Bind(ParseStrings(toks, weeks.next + 3), LAMBDA tips :
              IF ~(tips.ok /\ IsPunct(toks, tips.next, "}") /\ tips.next = Len(toks))
              THEN ParseError
              ELSE [ok |-> TRUE,
                    val |-> [topic |-> At(toks, 4).s,
                             duration |-> At(toks, 8).s,
                             overview |-> At(toks, 12).s,
                             weeks |-> weeks.val,
                             tips |-> tips.val],
                    next |-> tips.next + 1]))

\* ------------------------------------------- what generateObject can yield
\* Objects that satisfy flashcardSchema / studyPlanSchema.
Options == <<"a", "b", "c", "d">>
Question(n, answer) ==
    [question |-> IF n = 1 THEN "q1" ELSE "q2", options |-> Options, correctAnswer |-> answer, explanation |-> "why"]

\* z.number().min(lo).max(hi)
ZodNumberMinMax(x, lo, hi) ==
    /\ x.int >= lo
    /\ x.int < hi \/ (x.int = hi /\ ~x.half)

\* The element of flashcardSchema.questions.
QuestionSchema(q) ==
    /\ Len(q.options) = 4
    /\ ZodNumberMinMax(q.correctAnswer, 0, 3)

FlashcardSchema(o) == \A i \in 1..Len(o.questions) : QuestionSchema(o.questions[i])

\* What the artifact model can answer to the quiz prompt.
FlashcardAnswers(t) ==
    {[topic |-> t, questions |-> <<Question(1, Whole(0))>>],
     [topic |-> t, questions |-> <<Question(1, Whole(3)), Question(2, AndAHalf(1))>>],
     [topic |-> t, questions |-> <<Question(1, Whole(4))>>],
     [topic |-> t, questions |-> <<Question(1, AndAHalf(3))>>],
     [topic |-> t, questions |-> <<[Question(1, Whole(2)) EXCEPT !.options = <<"a", "b", "c">>]>>]}

\* generateObject({ schema: flashcardSchema }) resolves only with an answer
\* the schema accepts (any other one makes it reject).
FlashcardObjects(t) == {o \in FlashcardAnswers(t) : FlashcardSchema(o)}

Task(done) == [task |-> "read", duration |-> "1h", completed |-> done]
Week(n, tasks) ==
    [week |-> Whole(n), title |-> "basics", goals |-> <<>>, tasks |-> tasks, resources |-> <<"docs">>]

StudyPlanObjects(t) ==
    {[topic |-> t, duration |-> "2 weeks", overview |-> "o",
      weeks |-> <<Week(1, <<Task(FALSE)>>)>>, tips |-> <<"tip">>],
     [topic |-> t, duration |-> "2 weeks", overview |-> "o",
      weeks |-> <<Week(1, <<>>), Week(2, <<Task(FALSE), Task(TRUE)>>)>>, tips |-> <<>>]}


\* ------------------------------------------------------ capability units
Kind(a) == IF a = "quiz-master" THEN "flashcard" ELSE "study-plan"
DeltaType(a) == IF a = "quiz-master" THEN "data-flashcardDelta" ELSE "data-studyPlanDelta"
Title(a, t) == IF a = "quiz-master" THEN <<"Quiz: ", t>> ELSE <<"Study Plan: ", t>>
Objects(a, t) == IF a = "quiz-master" THEN FlashcardObjects(t) ELSE StudyPlanObjects(t)
Stringify(a, o) == IF a = "quiz-master" THEN StringifyFlashcard(o) ELSE StringifyStudyPlan(o)

\* crypto.randomUUID(): a fresh id per invocation (0 is the client's "init").
RandomUUID(inv) == inv

Part(type, data, inv) == [type |-> type, data |-> data, inv |-> inv]

\* Mutant of OpeningParts: the kind is announced only after the clear.
OpeningPartsKindLast(inv, a, t) ==
    << Part("data-id", RandomUUID(inv), inv),
       Part("data-title", Title(a, t), inv),
       Part("data-clear", "null", inv),
       Part("data-kind", Kind(a), inv) >>

\* dataStream.write x4 that open the panel.
OpeningParts(inv, a, t) ==
    << Part("data-id", RandomUUID(inv), inv),
       Part("data-title", Title(a, t), inv),
       Part("data-kind", Kind(a), inv),
       Part("data-clear", "null", inv) >>

\* The two writes after generateObject resolved.
ContentParts(inv, a, content) ==
    << Part(DeltaType(a), content, inv),
       Part("data-finish", "null", inv) >>

\* Mutant of CatchParts: a catch block that forgets the finish signal.
CatchPartsNoFinish(inv) == << >>

\* The write of the catch block.
CatchParts(inv) == << Part("data-finish", "null", inv) >>

ErrorMessage(error) == IF error.isError THEN error.message ELSE "Unknown error"

Pending == [state |-> "pending", agentName |-> "", success |-> FALSE, summary |-> <<>>]
Returned(a, success, summary) ==
    [state |-> "returned", agentName |-> a, success |-> success, summary |-> summary]
\* The promise execute returned was rejected: no AgentResult reaches the caller.
Rejected(a, error) ==
    [state |-> "threw", agentName |-> a, success |-> FALSE, summary |-> <<ErrorMessage(error)>>]

SuccessSummary(a, t) == <<"Created", Kind(a), t>>
FailureSummary(a, t, error) == <<"Failed to generate", Kind(a), t, ErrorMessage(error)>>

\* The catch block of an artifact-producing execute.
CatchResult(a, t, error) == Returned(a, FALSE, FailureSummary(a, t, error))

NoObject == [topic |-> ""]

\* The client's state before any part arrived (initialArtifactData).
InitialArtifactData ==
    [documentId |-> 0, title |-> <<>>, kind |-> "text", content |-> <<>>,
     status |-> "idle", isVisible |-> FALSE]

\* components/artifact.tsx: the definitions registered once Chapter 4 is done,
\* and the ones registered before flashcardArtifact and studyPlanArtifact are
\* added.
ArtifactDefinitions == {"text", "code", "sheet", "flashcard", "study-plan"}
DefinitionsBeforeChapter4 == {"text", "code", "sheet"}

\* getWeather before it is called; a viewer before its artifact is shown.
NotCalled == [pc |-> "idle"]
NotMounted == [mounted |-> FALSE]

\* No tool call yet, and streamText before its first step.
NoToolCall == [toolName |-> "", input |-> [type |-> "undefined"], issues |-> {}]
NotStarted == [steps |-> 0, finishReason |-> "", toolCall |-> NoToolCall, chunks |-> 0]

Init ==
    /\ session \in Sessions
    /\ pc = [inv \in Invocations |-> "idle"]
    /\ agent = [inv \in Invocations |-> "none"]
    /\ topic = [inv \in Invocations |-> ""]
    /\ object = [inv \in Invocations |-> NoObject]
    /\ result = [inv \in Invocations |-> Pending]
    /\ dataStream = <<>>
    /\ artifact = InitialArtifactData
    /\ documents = <<>>
    /\ now = 0
    /\ objectIds = 0
    /\ artifactDefinitions = ArtifactDefinitions
    /\ console = [warn |-> FALSE, error |-> FALSE]
    /\ streamText = NotStarted
    /\ storeCalls = {}
    /\ weather = NotCalled
    /\ flashcardViewer = NotMounted
    /\ studyPlanViewer = NotMounted

\* Invocations are numbered in the order the orchestrator starts them.
NextInvocation(inv) ==
    /\ pc[inv] = "idle"
    /\ \A other \in Invocations : other < inv => pc[other] # "idle"

\* planner / quizMaster execute, up to `await generateObject`.
ArtifactExecuteBegins(inv, a, t) ==
    /\ NextInvocation(inv)
    /\ a \in ArtifactAgents
    /\ agent' = [agent EXCEPT ![inv] = a]
    /\ topic' = [topic EXCEPT ![inv] = t]
    /\ dataStream' = dataStream \o OpeningParts(inv, a, t)
    /\ pc' = [pc EXCEPT ![inv] = "generateObject"]
    /\ UNCHANGED <<session, object, result, artifact, documents, now, objectIds, artifactDefinitions, console, storeCalls, weather, flashcardViewer, studyPlanViewer>>

\* The same, for a caller whose streamText loop is not followed.
ArtifactExecute(inv, a, t) == ArtifactExecuteBegins(inv, a, t) /\ UNCHANGED streamText

\* generateObject resolved: stringify, write delta and finish, then either
\* reach `await saveDocument` or return Success.
GenerateObjectResolves(inv, o) ==
    /\ pc[inv] = "generateObject"
    /\ o \in Objects(agent[inv], topic[inv])
    /\ object' = [object EXCEPT ![inv] = o]
    /\ dataStream' = dataStream \o ContentParts(inv, agent[inv], Stringify(agent[inv], o))
    /\ IF session # "none"
       THEN /\ pc' = [pc EXCEPT ![inv] = "saveDocument"]
            /\ UNCHANGED result
       ELSE /\ pc' = [pc EXCEPT ![inv] = "done"]
            /\ result' = [result EXCEPT ![inv] =
                   Returned(agent[inv], TRUE, SuccessSummary(agent[inv], topic[inv]))]
    /\ UNCHANGED <<session, agent, topic, artifact, documents, now, objectIds, artifactDefinitions, console, streamText, storeCalls, weather, flashcardViewer, studyPlanViewer>>

\* generateObject rejected: the catch block.
GenerateObjectRejects(inv, error) ==
    /\ pc[inv] = "generateObject"
    /\ dataStream' = dataStream \o CatchParts(inv)
    /\ result' = [result EXCEPT ![inv] = CatchResult(agent[inv], topic[inv], error)]
    /\ pc' = [pc EXCEPT ![inv] = "done"]
    /\ UNCHANGED <<session, agent, topic, object, artifact, documents, now, objectIds, artifactDefinitions, console, streamText, storeCalls, weather, flashcardViewer, studyPlanViewer>>

\* The turn is cancelled (or the producer dies) while generateObject is
\* pending: execute never resumes.
GenerateObjectAbandoned(inv) ==
    /\ pc[inv] = "generateObject"
    /\ pc' = [pc EXCEPT ![inv] = "abandoned"]
    /\ UNCHANGED <<session, agent, topic, object, result, dataStream, artifact, documents, now, objectIds, artifactDefinitions, console, streamText, storeCalls, weather, flashcardViewer, studyPlanViewer>>

\* ------------------------------------------------------ document store
\* saveDocument's `document`: the arguments, a fresh ObjectId and the time
\* of the call.
NewDocument(args) ==
    [_id |-> objectIds + 1, id |-> args.id, title |-> args.title, kind |-> args.kind,
     content |-> args.content, userId |-> args.userId, createdAt |-> now]

\* documents.insertOne(document)
InsertOne(args) == Append(documents, NewDocument(args))

\* documents.find({ id }), in insertion order.
Find(id) == SelectSeq(documents, LAMBDA d : d.id = id)

Records(docs) == {docs[i] : i \in 1..Len(docs)}

\* cursor.sort({ createdAt: direction }).toArray(): the arrays the cursor
\* can give for the records `found`. The store promises no order beyond the
\* sort key, so records with equal createdAt come in any order.
RECURSIVE Sort(_, _)
Sort(found, direction) ==
    IF found = {} THEN {<< >>}
    ELSE UNION {{<<d>> \o r : r \in Sort(found \ {d}, direction)} :
                  d \in {f \in found : \A e \in found :
                            direction * f.createdAt <= direction * e.createdAt}}

\* getDocumentsById: find({ id }).sort({ createdAt: 1 }).toArray(); the set
\* of arrays it can return.
GetDocumentsById(id) == Sort(Records(Find(id)), 1)

Null == [_id |-> 0]

\* A plausible slip: the sort direction of getDocumentsById.
GetDocumentByIdAscending(id) ==
    {IF Len(r) > 0 THEN r[1] ELSE Null : r \in Sort(Records(Find(id)), 1)}

\* getDocumentById: find({ id }).sort({ createdAt: -1 }).limit(1), then
\* document[0] || null; the set of values it can return.
GetDocumentById(id) ==
    {IF Len(r) > 0 THEN r[1] ELSE Null : r \in Sort(Records(Find(id)), -1)}

\* A plausible slip: the filter without the id.
AfterTimestampAnyId(d, id, timestamp) == d.createdAt > timestamp

\* The filter { id, createdAt: { $gt: timestamp } }.
AfterTimestamp(d, id, timestamp) == d.id = id /\ d.createdAt > timestamp

\* The wall clock moves on.
Tick ==
    /\ now < MaxClock
    /\ now' = now + 1
    /\ UNCHANGED <<session, pc, agent, topic, object, result, dataStream, artifact,
                   documents, objectIds, artifactDefinitions, console, streamText, storeCalls, weather, flashcardViewer, studyPlanViewer>>

\* saveDocument called by any caller of the store (an artifact unit, the
\* update handlers, the document route).
SaveDocument(id, title, kind, content, userId) ==
    /\ objectIds < MaxDocuments
    /\ documents' = InsertOne([id |-> id, title |-> title, kind |-> kind,
                               content |-> content, userId |-> userId])
    /\ objectIds' = objectIds + 1
    /\ UNCHANGED <<session, pc, agent, topic, object, result, dataStream, artifact, now, artifactDefinitions, console, streamText, storeCalls, weather, flashcardViewer, studyPlanViewer>>

\* deleteDocumentsByIdAfterTimestamp: deleteMany({ id, createdAt: { $gt } }).
DeleteDocumentsByIdAfterTimestamp(id, timestamp) ==
    /\ documents' = SelectSeq(documents, LAMBDA d : ~AfterTimestamp(d, id, timestamp))
    /\ UNCHANGED <<session, pc, agent, topic, object, result, dataStream, artifact,
                   now, objectIds, artifactDefinitions, console, streamText, storeCalls, weather, flashcardViewer, studyPlanViewer>>

\* The store's functions step by step, for callers that run side by side.
\* A store that replaces the record of the id instead of adding a version.
ReplaceOne(docs, document) ==
    Append(SelectSeq(docs, LAMBDA d : d.id # document.id), document)

\* documents.insertOne(document) on the collection as it is when the
\* insert reaches it.
InsertDocument(docs, document) == Append(docs, document)

\* Calls side by side in one behaviour.
MaxStoreCalls == 2

\* saveDocument up to `await documents.insertOne(document)`: the document
\* is built, with its ObjectId and the time of the call.
SaveDocumentBuilds(id, title, kind, content, userId) ==
    /\ objectIds < MaxDocuments
    /\ Cardinality(storeCalls) < MaxStoreCalls
    /\ storeCalls' = storeCalls \cup
          {[op |-> "saveDocument",
            document |-> NewDocument([id |-> id, title |-> title, kind |-> kind,
                                      content |-> content, userId |-> userId])]}
    /\ objectIds' = objectIds + 1
    /\ UNCHANGED <<session, pc, agent, topic, object, result, dataStream, artifact,
                   documents, now, artifactDefinitions, console, streamText, weather, flashcardViewer, studyPlanViewer>>

\* insertOne resolves and saveDocument returns [document].
InsertOneResolves(call) ==
    /\ call \in storeCalls
    /\ call.op = "saveDocument"
    /\ documents' = InsertDocument(documents, call.document)
    /\ storeCalls' = storeCalls \ {call}
    /\ UNCHANGED <<session, pc, agent, topic, object, result, dataStream, artifact,
                   now, objectIds, artifactDefinitions, console, streamText, weather, flashcardViewer, studyPlanViewer>>

\* deleteDocumentsByIdAfterTimestamp up to `await documents.deleteMany`:
\* `result` holds what find({ id, createdAt: { $gt } }).toArray() gave.
DeleteFinds(id, timestamp) ==
    /\ Cardinality(storeCalls) < MaxStoreCalls
    /\ storeCalls' = storeCalls \cup
          {[op |-> "deleteDocumentsByIdAfterTimestamp", id |-> id, timestamp |-> timestamp,
            result |-> SelectSeq(documents, LAMBDA d : AfterTimestamp(d, id, timestamp))]}
    /\ UNCHANGED <<session, pc, agent, topic, object, result, dataStream, artifact,
                   documents, now, objectIds, artifactDefinitions, console, streamText, weather, flashcardViewer, studyPlanViewer>>

\* deleteMany resolves on the collection as it is then, and the function
\* returns `result`.
DeleteManyResolves(call) ==
    /\ call \in storeCalls
    /\ call.op = "deleteDocumentsByIdAfterTimestamp"
    /\ documents' = SelectSeq(documents, LAMBDA d : ~AfterTimestamp(d, call.id, call.timestamp))
    /\ storeCalls' = storeCalls \ {call}
    /\ UNCHANGED <<session, pc, agent, topic, object, result, dataStream, artifact,
                   now, objectIds, artifactDefinitions, console, streamText, weather, flashcardViewer, studyPlanViewer>>

\* ------------------------------------------------ units and the store
\* A plausible slip: the bare topic saved where the streamed title belongs.
DocumentTopicAsTitle(inv) ==
    [id |-> RandomUUID(inv), title |-> <<topic[inv]>>,
     kind |-> Kind(agent[inv]), content |-> Stringify(agent[inv], object[inv]),
     userId |-> session]

\* The argument of saveDocument in execute.
Document(inv) ==
    [id |-> RandomUUID(inv), title |-> Title(agent[inv], topic[inv]),
     kind |-> Kind(agent[inv]), content |-> Stringify(agent[inv], object[inv]),
     userId |-> session]

\* saveDocument inserted the record: execute returns Success.
SaveDocumentResolves(inv) ==
    /\ pc[inv] = "saveDocument"
    /\ documents' = InsertOne(Document(inv))
    /\ objectIds' = objectIds + 1
    /\ result' = [result EXCEPT ![inv] =
           Returned(agent[inv], TRUE, SuccessSummary(agent[inv], topic[inv]))]
    /\ pc' = [pc EXCEPT ![inv] = "done"]
    /\ UNCHANGED <<session, agent, topic, object, dataStream, artifact, now, artifactDefinitions, console, streamText, storeCalls, weather, flashcardViewer, studyPlanViewer>>

\* saveDocument threw ChatSDKError: the await sits inside the try block, so
\* the same catch block runs.
SaveDocumentError == [isError |-> TRUE, message |-> "bad_request:database"]

SaveDocumentRejects(inv) ==
    /\ pc[inv] = "saveDocument"
    /\ dataStream' = dataStream \o CatchParts(inv)
    /\ result' = [result EXCEPT ![inv] = CatchResult(agent[inv], topic[inv], SaveDocumentError)]
    /\ pc' = [pc EXCEPT ![inv] = "done"]
    /\ UNCHANGED <<session, agent, topic, object, artifact, documents, now, objectIds, artifactDefinitions, console, streamText, storeCalls, weather, flashcardViewer, studyPlanViewer>>

\* A direct unit that announces an artifact before it calls the model.
DirectExecuteBeginsWithTitle(inv, a, t) ==
    /\ NextInvocation(inv)
    /\ a \in DirectAgents
    /\ agent' = [agent EXCEPT ![inv] = a]
    /\ topic' = [topic EXCEPT ![inv] = t]
    /\ dataStream' = dataStream \o << Part("data-title", <<"Explanation: ", t>>, inv) >>
    /\ pc' = [pc EXCEPT ![inv] = "generateText"]
    /\ UNCHANGED <<session, object, result, artifact, documents, now, objectIds, artifactDefinitions, console, storeCalls, weather, flashcardViewer, studyPlanViewer>>

\* tutor / analyst execute, up to `await generateText`.
DirectExecuteBegins(inv, a, t) ==
    /\ NextInvocation(inv)
    /\ a \in DirectAgents
    /\ agent' = [agent EXCEPT ![inv] = a]
    /\ topic' = [topic EXCEPT ![inv] = t]
    /\ pc' = [pc EXCEPT ![inv] = "generateText"]
    /\ UNCHANGED <<session, object, result, dataStream, artifact, documents, now, objectIds, artifactDefinitions, console, storeCalls, weather, flashcardViewer, studyPlanViewer>>

DirectExecute(inv, a, t) == DirectExecuteBegins(inv, a, t) /\ UNCHANGED streamText

GenerateTextResolves(inv) ==
    /\ pc[inv] = "generateText"
    /\ result' = [result EXCEPT ![inv] = Returned(agent[inv], TRUE, <<"text", topic[inv]>>)]
    /\ pc' = [pc EXCEPT ![inv] = "done"]
    /\ UNCHANGED <<session, agent, topic, object, dataStream, artifact, documents, now, objectIds, artifactDefinitions, console, streamText, storeCalls, weather, flashcardViewer, studyPlanViewer>>

\* generateText rejected: execute has no try/catch, the rejection leaves it.
GenerateTextRejects(inv, error) ==
    /\ pc[inv] = "generateText"
    /\ result' = [result EXCEPT ![inv] = Rejected(agent[inv], error)]
    /\ pc' = [pc EXCEPT ![inv] = "done"]
    /\ UNCHANGED <<session, agent, topic, object, dataStream, artifact, documents, now, objectIds, artifactDefinitions, console, streamText, storeCalls, weather, flashcardViewer, studyPlanViewer>>

\* ------------------------------------------------------ client reducer
FlashcardOnStreamPart(streamPart, draft) ==
    IF streamPart.type = "data-flashcardDelta"
    THEN [draft EXCEPT !.content = streamPart.data, !.isVisible = TRUE, !.status = "streaming"]
    ELSE draft

StudyPlanOnStreamPart(streamPart, draft) ==
    IF streamPart.type = "data-studyPlanDelta"
    THEN [draft EXCEPT !.content = streamPart.data, !.isVisible = TRUE, !.status = "streaming"]
    ELSE draft

\* The text, code and sheet definitions know only their own delta types.
OtherOnStreamPart(streamPart, draft) == draft

\* A plausible slip: the definition is imported by kind, registered or not.
DefinitionOnStreamPartUnregistered(kind, streamPart, draft) ==
    IF kind = "flashcard" THEN FlashcardOnStreamPart(streamPart, draft)
    ELSE IF kind = "study-plan" THEN StudyPlanOnStreamPart(streamPart, draft)
    ELSE OtherOnStreamPart(streamPart, draft)

\* artifactDefinitions.find(d => d.kind === artifact.kind)?.onStreamPart:
\* nothing is called when no definition is registered for the kind.
DefinitionOnStreamPart(kind, streamPart, draft) ==
    IF kind \notin artifactDefinitions THEN draft
    ELSE IF kind = "flashcard" THEN FlashcardOnStreamPart(streamPart, draft)
    ELSE IF kind = "study-plan" THEN StudyPlanOnStreamPart(streamPart, draft)
    ELSE OtherOnStreamPart(streamPart, draft)

\* `!artifactDefinition && artifact.kind !== "text"`: console.warn runs.
Warns(kind) == kind \notin artifactDefinitions /\ kind # "text"

\* Mutant of SetArtifact: data-finish goes idle only once content arrived.
SetArtifactFinishNeedsContent(delta, draftArtifact) ==
    CASE delta.type = "data-id" ->
            [draftArtifact EXCEPT !.documentId = delta.data, !.status = "streaming"]
      [] delta.type = "data-title" ->
            [draftArtifact EXCEPT !.title = delta.data, !.status = "streaming"]
      [] delta.type = "data-kind" ->
            [draftArtifact EXCEPT !.kind = delta.data, !.status = "streaming"]
      [] delta.type = "data-clear" ->
            [draftArtifact EXCEPT !.content = <<>>, !.status = "streaming"]
      [] delta.type = "data-finish" ->
            IF draftArtifact.content = <<>> THEN draftArtifact
            ELSE [draftArtifact EXCEPT !.status = "idle"]
      [] OTHER -> draftArtifact

\* A finish that closes the panel when nothing was streaming.
SetArtifactFinishCloses(delta, draftArtifact) ==
    CASE delta.type = "data-id" ->
            [draftArtifact EXCEPT !.documentId = delta.data, !.status = "streaming"]
      [] delta.type = "data-title" ->
            [draftArtifact EXCEPT !.title = delta.data, !.status = "streaming"]
      [] delta.type = "data-kind" ->
            [draftArtifact EXCEPT !.kind = delta.data, !.status = "streaming"]
      [] delta.type = "data-clear" ->
            [draftArtifact EXCEPT !.content = <<>>, !.status = "streaming"]
      [] delta.type = "data-finish" ->
            IF draftArtifact.status = "streaming"
            THEN [draftArtifact EXCEPT !.status = "idle"]
            ELSE [draftArtifact EXCEPT !.isVisible = FALSE]
      [] OTHER -> draftArtifact

\* A clear that starts from the initial artifact, keeping only the id.
SetArtifactClearResets(delta, draftArtifact) ==
    CASE delta.type = "data-id" ->
            [draftArtifact EXCEPT !.documentId = delta.data, !.status = "streaming"]
      [] delta.type = "data-title" ->
            [draftArtifact EXCEPT !.title = delta.data, !.status = "streaming"]
      [] delta.type = "data-kind" ->
            [draftArtifact EXCEPT !.kind = delta.data, !.status = "streaming"]
      [] delta.type = "data-clear" ->
            [InitialArtifactData EXCEPT !.documentId = draftArtifact.documentId,
                                        !.status = "streaming"]
      [] delta.type = "data-finish" ->
            [draftArtifact EXCEPT !.status = "idle"]
      [] OTHER -> draftArtifact

\* The updater DataStreamHandler passes to setArtifact.
SetArtifact(delta, draftArtifact) ==
    CASE delta.type = "data-id" ->
            [draftArtifact EXCEPT !.documentId = delta.data, !.status = "streaming"]
      [] delta.type = "data-title" ->
            [draftArtifact EXCEPT !.title = delta.data, !.status = "streaming"]
      [] delta.type = "data-kind" ->
            [draftArtifact EXCEPT !.kind = delta.data, !.status = "streaming"]
      [] delta.type = "data-clear" ->
            [draftArtifact EXCEPT !.content = <<>>, !.status = "streaming"]
      [] delta.type = "data-finish" ->
            [draftArtifact EXCEPT !.status = "idle"]
      [] OTHER -> draftArtifact

\* One iteration of `for (const delta of newDeltas)`. renderKind is
\* artifact.kind of the render the effect closed over: it does not follow the
\* setArtifact calls made earlier in the same loop.
HandleDelta(renderKind, delta, draft) ==
    SetArtifact(delta, DefinitionOnStreamPart(renderKind, delta, draft))

RECURSIVE HandleDeltas(_, _, _)
HandleDeltas(renderKind, newDeltas, draft) ==
    IF Len(newDeltas) = 0 THEN draft
    ELSE HandleDeltas(renderKind, Tail(newDeltas), HandleDelta(renderKind, Head(newDeltas), draft))

\* dataStream.slice() of a render that has received the first n pending parts.
NewDeltas(n) == SubSeq(dataStream, 1, n)

\* The effect of DataStreamHandler: handle the parts received so far and take
\* them off the stream (setDataStream([])).
DataStreamHandler(n) ==
    /\ n \in 1..Len(dataStream)
    /\ artifact' = HandleDeltas(artifact.kind, NewDeltas(n), artifact)
    /\ dataStream' = SubSeq(dataStream, n + 1, Len(dataStream))
    /\ console' = [console EXCEPT !.warn = @ \/ Warns(artifact.kind)]
    /\ UNCHANGED <<session, pc, agent, topic, object, result, documents, now, objectIds,
                   artifactDefinitions, streamText, storeCalls, weather, flashcardViewer, studyPlanViewer>>

\* The loop when onStreamPart throws for the k-th part: the catch block logs
\* the error, and the loop goes on with setArtifact for that part.
RECURSIVE HandleDeltasThrowing(_, _, _, _)
HandleDeltasThrowing(renderKind, newDeltas, draft, k) ==
    IF Len(newDeltas) = 0 THEN draft
    ELSE HandleDeltasThrowing(renderKind, Tail(newDeltas),
             IF k = 1 THEN SetArtifact(Head(newDeltas), draft)
             ELSE HandleDelta(renderKind, Head(newDeltas), draft),
             k - 1)

\* The effect of DataStreamHandler when the onStreamPart of the definition it
\* found throws for the k-th part of the batch.
DataStreamHandlerThrows(n, k) ==
    /\ n \in 1..Len(dataStream)
    /\ k \in 1..n
    /\ artifact.kind \in artifactDefinitions
    /\ artifact' = HandleDeltasThrowing(artifact.kind, NewDeltas(n), artifact, k)
    /\ dataStream' = SubSeq(dataStream, n + 1, Len(dataStream))
    /\ console' = [console EXCEPT !.error = TRUE]
    /\ UNCHANGED <<session, pc, agent, topic, object, result, documents, now, objectIds,
                   artifactDefinitions, streamText, storeCalls, weather, flashcardViewer, studyPlanViewer>>

\* The capability units alone: nothing reads the stream.
NextUnits ==
    \/ \E inv \in Invocations, a \in ArtifactAgents, t \in Topics : ArtifactExecute(inv, a, t)
    \/ \E inv \in Invocations :
          \E o \in Objects(agent[inv], topic[inv]) : GenerateObjectResolves(inv, o)
    \/ \E inv \in Invocations, error \in Thrown : GenerateObjectRejects(inv, error)
    \/ \E inv \in Invocations : GenerateObjectAbandoned(inv)
    \/ \E inv \in Invocations : SaveDocumentResolves(inv)
    \/ \E inv \in Invocations : SaveDocumentRejects(inv)
    \/ \E inv \in Invocations, a \in DirectAgents, t \in Topics : DirectExecute(inv, a, t)
    \/ \E inv \in Invocations : GenerateTextResolves(inv)
    \/ \E inv \in Invocations, error \in Thrown : GenerateTextRejects(inv, error)

SpecUnits == Init /\ [][NextUnits]_vars

\* The units and the client together.
Next ==
    \/ \E inv \in Invocations, a \in ArtifactAgents, t \in Topics : ArtifactExecute(inv, a, t)
    \/ \E inv \in Invocations :
          \E o \in Objects(agent[inv], topic[inv]) : GenerateObjectResolves(inv, o)
    \/ \E inv \in Invocations, error \in Thrown : GenerateObjectRejects(inv, error)
    \/ \E inv \in Invocations : GenerateObjectAbandoned(inv)
    \/ \E inv \in Invocations : SaveDocumentResolves(inv)
    \/ \E inv \in Invocations : SaveDocumentRejects(inv)
    \/ \E inv \in Invocations, a \in DirectAgents, t \in Topics : DirectExecute(inv, a, t)
    \/ \E inv \in Invocations : GenerateTextResolves(inv)
    \/ \E inv \in Invocations, error \in Thrown : GenerateTextRejects(inv, error)
    \/ \E n \in 1..Len(dataStream) : DataStreamHandler(n)

Spec == Init /\ [][Next]_vars


\* One tool call per orchestrator step: an invocation starts only when none
\* is in flight. The client runs as in Next.
NoneInFlight == \A inv \in Invocations : pc[inv] \in {"idle", "done", "abandoned"}

NextSequential ==
    \/ /\ NoneInFlight
       /\ \E inv \in Invocations, a \in ArtifactAgents, t \in Topics : ArtifactExecute(inv, a, t)
    \/ \E inv \in Invocations :
          \E o \in Objects(agent[inv], topic[inv]) : GenerateObjectResolves(inv, o)
    \/ \E inv \in Invocations, error \in Thrown : GenerateObjectRejects(inv, error)
    \/ \E inv \in Invocations : GenerateObjectAbandoned(inv)
    \/ \E inv \in Invocations : SaveDocumentResolves(inv)
    \/ \E inv \in Invocations : SaveDocumentRejects(inv)
    \/ \E n \in 1..Len(dataStream) : DataStreamHandler(n)

SpecSequential == Init /\ [][NextSequential]_vars

\* The workshop at either stage of the registry, for a visitor who is not
\* signed in; one tool call per step, and a definition's onStreamPart may
\* throw (for the first or for the last part of a batch).
InitWorkshop ==
    /\ session = "none"
    /\ pc = [inv \in Invocations |-> "idle"]
    /\ agent = [inv \in Invocations |-> "none"]
    /\ topic = [inv \in Invocations |-> ""]
    /\ object = [inv \in Invocations |-> NoObject]
    /\ result = [inv \in Invocations |-> Pending]
    /\ dataStream = <<>>
    /\ artifact = InitialArtifactData
    /\ documents = <<>>
    /\ now = 0
    /\ objectIds = 0
    /\ artifactDefinitions \in {ArtifactDefinitions, DefinitionsBeforeChapter4}
    /\ console = [warn |-> FALSE, error |-> FALSE]
    /\ streamText = NotStarted
    /\ storeCalls = {}
    /\ weather = NotCalled
    /\ flashcardViewer = NotMounted
    /\ studyPlanViewer = NotMounted

NextWorkshop ==
    \/ /\ NoneInFlight
       /\ \E inv \in Invocations, a \in ArtifactAgents, t \in Topics : ArtifactExecute(inv, a, t)
    \/ \E inv \in Invocations :
          \E o \in Objects(agent[inv], topic[inv]) : GenerateObjectResolves(inv, o)
    \/ \E inv \in Invocations, error \in Thrown : GenerateObjectRejects(inv, error)
    \/ \E n \in 1..Len(dataStream) : DataStreamHandler(n)
    \/ \E n \in 1..Len(dataStream) : \E k \in {1, n} : DataStreamHandlerThrows(n, k)

SpecWorkshop == InitWorkshop /\ [][NextWorkshop]_vars

\* The store under any caller: two document ids, and for each save the
\* title and kind one of the artifact units (or its update handler) gives.
DocumentIds == {RandomUUID(1), RandomUUID(2)}
Timestamps == 0..MaxClock

NextStore ==
    \/ Tick
    \/ \E id \in DocumentIds, a \in ArtifactAgents, t \in Topics :
          SaveDocument(id, Title(a, t), Kind(a), << >>, "user-1")
    \/ \E id \in DocumentIds, timestamp \in Timestamps :
          DeleteDocumentsByIdAfterTimestamp(id, timestamp)

SpecStore == Init /\ [][NextStore]_vars

\* Callers that save side by side, to either id.
NextSaves ==
    \/ Tick
    \/ \E id \in DocumentIds, t \in Topics :
          SaveDocumentBuilds(id, Title("planner", t), Kind("planner"), << >>, "user-1")
    \/ \E call \in storeCalls : InsertOneResolves(call)

SpecSaves == Init /\ [][NextSaves]_vars

\* Callers that save and delete side by side.
NextStoreCalls ==
    \/ Tick
    \/ \E id \in DocumentIds, t \in Topics :
          SaveDocumentBuilds(id, Title("planner", t), Kind("planner"), << >>, "user-1")
    \/ \E call \in storeCalls : InsertOneResolves(call)
    \/ \E id \in DocumentIds, timestamp \in Timestamps : DeleteFinds(id, timestamp)
    \/ \E call \in storeCalls : DeleteManyResolves(call)

SpecStoreCalls == Init /\ [][NextStoreCalls]_vars

\* ------------------------------------------------ tool input schemas
\* A JSON value of a tool call's input; a key the object does not have is
\* Undefined.
Undefined == [type |-> "undefined"]
StringValue(s) == [type |-> "string", string |-> s]
NumberValue(x) == [type |-> "number", number |-> x]
ArrayValue(ss) == [type |-> "array", array |-> ss]

\* zod schemas, as data.
ZString == [zod |-> "string"]
ZNumber == [zod |-> "number"]
ZNumberMinMax(lo, hi) == [zod |-> "numberMinMax", min |-> lo, max |-> hi]
ZEnum(values) == [zod |-> "enum", values |-> values]
ZArrayOfString == [zod |-> "arrayOfString"]
\* .optional() and .default(d): undefined passes.
ZOptional(z) == [zod |-> "optional", inner |-> z]

ToolNames == {"getWeather", "tutor", "quizMaster", "planner", "analyst"}

InputSchema(toolName) ==
    CASE toolName = "getWeather" ->
           [latitude |-> ZOptional(ZNumber),
            longitude |-> ZOptional(ZNumber),
            city |-> ZOptional(ZString)]
      [] toolName = "tutor" ->
           [topic |-> ZString,
            depth |-> ZOptional(ZEnum({"beginner", "intermediate", "advanced"})),
            context |-> ZOptional(ZString)]
      [] toolName = "quizMaster" ->
           [topic |-> ZString,
            numberOfQuestions |-> ZOptional(ZNumberMinMax(Whole(1), Whole(10))),
            difficulty |-> ZOptional(ZEnum({"easy", "medium", "hard", "mixed"})),
            focusAreas |-> ZOptional(ZArrayOfString)]
      [] toolName = "planner" ->
           [topic |-> ZString,
            timeframe |-> ZOptional(ZString),
            hoursPerDay |-> ZOptional(ZNumberMinMax(AndAHalf(0), Whole(8))),
            currentLevel |-> ZOptional(ZEnum({"complete beginner", "some basics",
                                              "intermediate", "advanced"})),
            goals |-> ZOptional(ZArrayOfString)]
      [] toolName = "analyst" ->
           [content |-> ZString,
            analysisType |-> ZOptional(ZEnum({"summary", "key-points", "deep-analysis",
                                              "study-notes"})),
            focusOn |-> ZOptional(ZString),
            outputLength |-> ZOptional(ZEnum({"brief", "moderate", "detailed"}))]

\* Twice a number that is whole or whole and a half.
Twice(x) == 2 * x.int + (IF x.half THEN 1 ELSE 0)

AcceptsValue(z, v) ==
    CASE z.zod = "string" -> v.type = "string"
      [] z.zod = "number" -> v.type = "number"
      [] z.zod = "numberMinMax" ->
           /\ v.type = "number"
           /\ Twice(v.number) >= Twice(z.min)
           /\ Twice(v.number) <= Twice(z.max)
      [] z.zod = "enum" -> v.type = "string" /\ v.string \in z.values
      [] z.zod = "arrayOfString" -> v.type = "array"

\* A schema that only asks for the required keys to be there.
AcceptsAnyValue(z, v) == z.zod = "optional" \/ v.type # "undefined"

Accepts(z, v) ==
    IF z.zod = "optional"
    THEN v.type = "undefined" \/ AcceptsValue(z.inner, v)
    ELSE AcceptsValue(z, v)

\* The paths of the issues inputSchema.safeParse(input) reports.
SafeParseIssues(toolName, input) ==
    {key \in DOMAIN InputSchema(toolName) : ~Accepts(InputSchema(toolName)[key], input[key])}

\* Input objects the orchestrating model can put in a tool call.
JustTopic == StringValue("js")
QuizMasterInput(t, n, d, f) ==
    [topic |-> t, numberOfQuestions |-> n, difficulty |-> d, focusAreas |-> f]
PlannerInput(t, h, l) ==
    [topic |-> t, timeframe |-> Undefined, hoursPerDay |-> h, currentLevel |-> l,
     goals |-> Undefined]
TutorInput(t, d) == [topic |-> t, depth |-> d, context |-> Undefined]
AnalystInput(c, l) ==
    [content |-> c, analysisType |-> Undefined, focusOn |-> Undefined, outputLength |-> l]
GetWeatherInput(lat, c) == [latitude |-> lat, longitude |-> Undefined, city |-> c]

Inputs(toolName) ==
    CASE toolName = "quizMaster" ->
           {QuizMasterInput(JustTopic, Undefined, Undefined, Undefined),
            QuizMasterInput(JustTopic, NumberValue(Whole(10)), StringValue("hard"),
                            ArrayValue(<<"closures">>)),
            QuizMasterInput(Undefined, Undefined, Undefined, Undefined),
            QuizMasterInput(NumberValue(Whole(42)), Undefined, Undefined, Undefined),
            QuizMasterInput(JustTopic, NumberValue(Whole(0)), Undefined, Undefined),
            QuizMasterInput(JustTopic, NumberValue(AndAHalf(10)), Undefined, Undefined),
            QuizMasterInput(JustTopic, NumberValue(Whole(11)), StringValue("extreme"),
                            Undefined),
            QuizMasterInput(JustTopic, Undefined, Undefined, StringValue("closures"))}
      [] toolName = "planner" ->
           {PlannerInput(JustTopic, NumberValue(AndAHalf(0)), Undefined),
            PlannerInput(JustTopic, NumberValue(Whole(0)), Undefined),
            PlannerInput(JustTopic, NumberValue(Whole(9)), Undefined),
            PlannerInput(Undefined, Undefined, StringValue("expert"))}
      [] toolName = "tutor" ->
           {TutorInput(JustTopic, Undefined),
            TutorInput(JustTopic, StringValue("expert")),
            TutorInput(Undefined, StringValue("beginner"))}
      [] toolName = "analyst" ->
           {AnalystInput(JustTopic, StringValue("brief")),
            AnalystInput(JustTopic, StringValue("long")),
            AnalystInput(Undefined, Undefined)}
      [] toolName = "getWeather" ->
           {GetWeatherInput(Undefined, Undefined),
            GetWeatherInput(Undefined, StringValue("London")),
            GetWeatherInput(StringValue("north"), Undefined),
            GetWeatherInput(Undefined, NumberValue(Whole(7)))}

\* ------------------------------------------- getWeather as of Chapter 1
\* Inputs the schema accepts: a city (or none, or the empty string), with
\* or without either coordinate.
WeatherInputs ==
    [city : {Undefined, StringValue(""), StringValue("London")},
     latitude : {Undefined, NumberValue(Whole(0)), NumberValue(Whole(10))},
     longitude : {Undefined, NumberValue(Whole(20))}]

\* What the geocoding request can come to.
GeocodingResponses ==
    {"fetch throws", "not ok", "json throws", "no results", "empty results", "found"}
\* Where the geocoding API puts London.
LondonCoordinates == [latitude |-> NumberValue(Whole(51)), longitude |-> NumberValue(Whole(-1))]

GeocodingRequest(city) == [api |-> "geocoding", name |-> city]
ForecastRequest(latitude, longitude) ==
    [api |-> "forecast", latitude |-> latitude, longitude |-> longitude]

\* geocodeCity: the coordinates of the first result, or null.
GeocodeCity(response) == IF response = "found" THEN LondonCoordinates ELSE Null

\* An execute that looks at the coordinates before the city.
BranchCoordinatesFirst(input) ==
    IF input.latitude # Undefined /\ input.longitude # Undefined THEN "coordinates"
    ELSE IF input.city.type = "string" /\ input.city.string # "" THEN "city"
    ELSE "neither"

\* if (input.city) ... else if (latitude !== undefined && longitude !==
\* undefined) ... else ...
Branch(input) ==
    IF input.city.type = "string" /\ input.city.string # "" THEN "city"
    ELSE IF input.latitude # Undefined /\ input.longitude # Undefined THEN "coordinates"
    ELSE "neither"

CouldNotFind(city) == [error |-> <<"Could not find coordinates for", city>>]
PleaseProvide == [error |-> <<"Please provide either a city name or both coordinates">>]
\* response.json() of the forecast, with cityName when the input has a city.
WeatherData(input) ==
    IF input.city # Undefined
    THEN [current |-> "temperature_2m", cityName |-> input.city.string]
    ELSE [current |-> "temperature_2m"]

\* execute, up to its first await or return.
GetWeatherExecute(input) ==
    /\ weather.pc = "idle"
    /\ weather' =
          CASE Branch(input) = "city" ->
                 [pc |-> "geocodeCity", input |-> input,
                  fetched |-> <<GeocodingRequest(input.city.string)>>]
            [] Branch(input) = "coordinates" ->
                 [pc |-> "forecast", input |-> input,
                  fetched |-> <<ForecastRequest(input.latitude, input.longitude)>>]
            [] OTHER ->
                 [pc |-> "returned", input |-> input, fetched |-> << >>,
                  output |-> PleaseProvide]
    /\ UNCHANGED <<session, pc, agent, topic, object, result, dataStream, artifact,
                   documents, now, objectIds, artifactDefinitions, console, streamText,
                   storeCalls, flashcardViewer, studyPlanViewer>>

\* geocodeCity returns: without coordinates execute returns the error,
\* with them it fetches the forecast.
GeocodeCityReturns(response) ==
    /\ weather.pc = "geocodeCity"
    /\ weather' =
          IF GeocodeCity(response) = Null
          THEN [pc |-> "returned", input |-> weather.input, fetched |-> weather.fetched,
                geocoding |-> response,
                output |-> CouldNotFind(weather.input.city.string)]
          ELSE [pc |-> "forecast", input |-> weather.input, geocoding |-> response,
                fetched |-> Append(weather.fetched,
                                   ForecastRequest(GeocodeCity(response).latitude,
                                                   GeocodeCity(response).longitude))]
    /\ UNCHANGED <<session, pc, agent, topic, object, result, dataStream, artifact,
                   documents, now, objectIds, artifactDefinitions, console, streamText,
                   storeCalls, flashcardViewer, studyPlanViewer>>

\* The forecast request resolves and its JSON is returned.
ForecastResolves ==
    /\ weather.pc = "forecast"
    /\ weather' = [weather EXCEPT !.pc = "returned"] @@ [output |-> WeatherData(weather.input)]
    /\ UNCHANGED <<session, pc, agent, topic, object, result, dataStream, artifact,
                   documents, now, objectIds, artifactDefinitions, console, streamText,
                   storeCalls, flashcardViewer, studyPlanViewer>>

\* The forecast request (or its json()) throws: nothing catches it.
ForecastRejects ==
    /\ weather.pc = "forecast"
    /\ weather' = [weather EXCEPT !.pc = "threw"]
    /\ UNCHANGED <<session, pc, agent, topic, object, result, dataStream, artifact,
                   documents, now, objectIds, artifactDefinitions, console, streamText,
                   storeCalls, flashcardViewer, studyPlanViewer>>

NextGetWeather ==
    \/ \E input \in WeatherInputs : GetWeatherExecute(input)
    \/ \E response \in GeocodingResponses : GeocodeCityReturns(response)
    \/ ForecastResolves
    \/ ForecastRejects

SpecGetWeather == Init /\ [][NextGetWeather]_vars

\* ------------------------------------------------------ FlashcardViewer
\* Questions a quiz is followed for.
MaxQuestions == 3

\* Contents that satisfy flashcardSchema: quizzes of 0..MaxQuestions
\* questions, serialized as the units serialize them.
ViewerAnswers == {Whole(1), AndAHalf(1)}
ViewerQuizzes ==
    UNION {{[topic |-> "js", questions |-> [i \in 1..n |-> Question(i, answers[i])]] :
               answers \in [1..n -> ViewerAnswers]} : n \in 0..MaxQuestions}
ViewerContents == {StringifyFlashcard(o) : o \in {q \in ViewerQuizzes : FlashcardSchema(q)}}

\* The useState initial values.
InitialViewerState(content) ==
    [mounted |-> TRUE, content |-> content, currentIndex |-> 0, selectedAnswer |-> {},
     showExplanation |-> FALSE, score |-> [correct |-> 0, total |-> 0]]

\* data = JSON.parse(content), where the render gets that far.
ShowsQuiz(v) == v.mounted /\ v.content # << >> /\ ParseFlashcard(v.content).ok
Data(v) == ParseFlashcard(v.content).val
\* data.questions[currentIndex] is defined (JavaScript indexes from 0).
HasCurrentQuestion(v) == v.currentIndex < Len(Data(v).questions)
CurrentQuestion(v) == Data(v).questions[v.currentIndex + 1]
IsLastQuestion(v) == v.currentIndex = Len(Data(v).questions) - 1
IsAnswered(v) == v.selectedAnswer # {}
\* index === currentQuestion.correctAnswer
IsCorrectAnswer(v, index) ==
    ~CurrentQuestion(v).correctAnswer.half /\ CurrentQuestion(v).correctAnswer.int = index

\* handleSelectAnswer
AfterSelectAnswer(v, index) ==
    IF IsAnswered(v) THEN v
    ELSE [v EXCEPT !.selectedAnswer = {index},
                   !.showExplanation = TRUE,
                   !.score = [correct |-> @.correct + (IF IsCorrectAnswer(v, index) THEN 1 ELSE 0),
                              total |-> @.total + 1]]

\* A restart that keeps the score.
AfterNextKeepsScore(v) ==
    IF IsLastQuestion(v)
    THEN [v EXCEPT !.currentIndex = 0, !.selectedAnswer = {}, !.showExplanation = FALSE]
    ELSE [v EXCEPT !.currentIndex = @ + 1, !.selectedAnswer = {}, !.showExplanation = FALSE]

\* handleNext
AfterNext(v) ==
    IF IsLastQuestion(v)
    THEN [v EXCEPT !.currentIndex = 0, !.selectedAnswer = {}, !.showExplanation = FALSE,
                   !.score = [correct |-> 0, total |-> 0]]
    ELSE [v EXCEPT !.currentIndex = @ + 1, !.selectedAnswer = {}, !.showExplanation = FALSE]

\* The artifact is shown: FlashcardViewer renders for the first time.
FlashcardViewerMounts(content) ==
    /\ ~flashcardViewer.mounted
    /\ flashcardViewer' = InitialViewerState(content)
    /\ UNCHANGED <<session, pc, agent, topic, object, result, dataStream, artifact,
                   documents, now, objectIds, artifactDefinitions, console, streamText,
                   storeCalls, weather, studyPlanViewer>>

\* A click on option `index` of the question on show.
HandleSelectAnswer(index) ==
    /\ ShowsQuiz(flashcardViewer)
    /\ HasCurrentQuestion(flashcardViewer)
    /\ index \in 0..(Len(CurrentQuestion(flashcardViewer).options) - 1)
    /\ flashcardViewer' = AfterSelectAnswer(flashcardViewer, index)
    /\ UNCHANGED <<session, pc, agent, topic, object, result, dataStream, artifact,
                   documents, now, objectIds, artifactDefinitions, console, streamText,
                   storeCalls, weather, studyPlanViewer>>

\* A click on "Next Question" / "Restart Quiz", shown once answered.
HandleNext ==
    /\ ShowsQuiz(flashcardViewer)
    /\ HasCurrentQuestion(flashcardViewer)
    /\ IsAnswered(flashcardViewer)
    /\ flashcardViewer' = AfterNext(flashcardViewer)
    /\ UNCHANGED <<session, pc, agent, topic, object, result, dataStream, artifact,
                   documents, now, objectIds, artifactDefinitions, console, streamText,
                   storeCalls, weather, studyPlanViewer>>

\* The artifact's content is replaced (the quiz is regenerated) while the
\* viewer stays mounted: the content prop changes, the useState values stay.
FlashcardContentReplaced(content) ==
    /\ flashcardViewer.mounted
    /\ content # flashcardViewer.content
    /\ flashcardViewer' = [flashcardViewer EXCEPT !.content = content]
    /\ UNCHANGED <<session, pc, agent, topic, object, result, dataStream, artifact,
                   documents, now, objectIds, artifactDefinitions, console, streamText,
                   storeCalls, weather, studyPlanViewer>>

\* One quiz, answered and clicked through.
NextFlashcardViewer ==
    \/ \E content \in ViewerContents : FlashcardViewerMounts(content)
    \/ \E index \in 0..3 : HandleSelectAnswer(index)
    \/ HandleNext

SpecFlashcardViewer == Init /\ [][NextFlashcardViewer]_vars

\* The same, with the quiz regenerated under the viewer.
NextFlashcardViewerRegenerated ==
    \/ \E content \in ViewerContents : FlashcardViewerMounts(content)
    \/ \E index \in 0..3 : HandleSelectAnswer(index)
    \/ HandleNext
    \/ \E content \in ViewerContents : FlashcardContentReplaced(content)

SpecFlashcardViewerRegenerated == Init /\ [][NextFlashcardViewerRegenerated]_vars

\* ------------------------------------------------------ StudyPlanViewer
\* Plans the viewer is given: the ones the planner can produce, one with
\* tasks in two weeks, one with weeks but no task, one with no week.
ViewerPlans ==
    StudyPlanObjects("js") \cup
    {[topic |-> "js", duration |-> "2 weeks", overview |-> "o",
      weeks |-> <<Week(1, <<Task(TRUE), Task(FALSE)>>), Week(2, <<Task(FALSE)>>)>>,
      tips |-> <<"tip">>],
     [topic |-> "js", duration |-> "2 weeks", overview |-> "o",
      weeks |-> <<Week(1, << >>)>>, tips |-> << >>],
     [topic |-> "js", duration |-> "2 weeks", overview |-> "o",
      weeks |-> << >>, tips |-> << >>]}
PlanContents == {StringifyStudyPlan(o) : o \in ViewerPlans}

\* A checkbox that can only be ticked.
ToggleTaskDataOnlyTicks(data, weekIndex, taskIndex) ==
    [data EXCEPT !.weeks[weekIndex + 1].tasks[taskIndex + 1].completed = TRUE]

\* newData.weeks[weekIndex].tasks[taskIndex].completed = !...completed
\* (newData shares its weeks with data: the parsed object itself changes).
ToggleTaskData(data, weekIndex, taskIndex) ==
    [data EXCEPT !.weeks[weekIndex + 1].tasks[taskIndex + 1].completed = ~@]

RECURSIVE TotalTasksOf(_)
\* weeks.reduce((acc, week) => acc + week.tasks.length, 0)
TotalTasksOf(weeks) ==
    IF Len(weeks) = 0 THEN 0 ELSE Len(Head(weeks).tasks) + TotalTasksOf(Tail(weeks))
TotalTasks(data) == TotalTasksOf(data.weeks)
RECURSIVE CompletedTasksOf(_)
\* weeks.reduce((acc, week) => acc + week.tasks.filter((t) => t.completed).length, 0)
CompletedTasksOf(weeks) ==
    IF Len(weeks) = 0 THEN 0
    ELSE Len(SelectSeq(Head(weeks).tasks, LAMBDA t : t.completed))
            + CompletedTasksOf(Tail(weeks))
CompletedTasks(data) == CompletedTasksOf(data.weeks)
\* totalTasks > 0 ? (completedTasks / totalTasks) * 100 : 0, to the whole
\* percent below.
ProgressPercent(data) ==
    IF TotalTasks(data) > 0 THEN (CompletedTasks(data) * 100) \div TotalTasks(data) ELSE 0

\* StudyPlanViewer renders for the first time with the artifact's content.
StudyPlanViewerRenders(content) ==
    /\ ~studyPlanViewer.mounted
    /\ ParseStudyPlan(content).ok
    /\ studyPlanViewer' = [mounted |-> TRUE, content |-> content,
                           data |-> ParseStudyPlan(content).val, saved |-> << >>,
                           expandedWeek |-> {0}]
    /\ UNCHANGED <<session, pc, agent, topic, object, result, dataStream, artifact,
                   documents, now, objectIds, artifactDefinitions, console, streamText,
                   storeCalls, weather, flashcardViewer>>

\* A click on the header of week weekIndex: setExpandedWeek(isExpanded ?
\* null : weekIndex), and the render that follows parses content again.
\* expandedWeek is {} for null and {n} for n.
SetExpandedWeek(weekIndex) ==
    /\ studyPlanViewer.mounted
    /\ weekIndex \in 0..(Len(studyPlanViewer.data.weeks) - 1)
    /\ studyPlanViewer' = [studyPlanViewer EXCEPT
                              !.expandedWeek = IF weekIndex \in @ THEN {} ELSE {weekIndex},
                              !.data = ParseStudyPlan(studyPlanViewer.content).val]
    /\ UNCHANGED <<session, pc, agent, topic, object, result, dataStream, artifact,
                   documents, now, objectIds, artifactDefinitions, console, streamText,
                   storeCalls, weather, flashcardViewer>>

\* A click on the checkbox of task taskIndex of week weekIndex, which is
\* shown while the week is expanded.
ToggleTask(weekIndex, taskIndex) ==
    /\ studyPlanViewer.mounted
    /\ weekIndex \in studyPlanViewer.expandedWeek
    /\ weekIndex \in 0..(Len(studyPlanViewer.data.weeks) - 1)
    /\ taskIndex \in 0..(Len(studyPlanViewer.data.weeks[weekIndex + 1].tasks) - 1)
    /\ LET newData == ToggleTaskData(studyPlanViewer.data, weekIndex, taskIndex)
       IN  studyPlanViewer' = [studyPlanViewer EXCEPT !.data = newData,
                                                       !.saved = StringifyStudyPlan(newData)]
    /\ UNCHANGED <<session, pc, agent, topic, object, result, dataStream, artifact,
                   documents, now, objectIds, artifactDefinitions, console, streamText,
                   storeCalls, weather, flashcardViewer>>

\* The content passed to onSaveContent comes back as the content prop and
\* the viewer renders again.
SavedContentRenders ==
    /\ studyPlanViewer.mounted
    /\ studyPlanViewer.saved # << >>
    /\ studyPlanViewer.saved # studyPlanViewer.content
    /\ ParseStudyPlan(studyPlanViewer.saved).ok
    /\ studyPlanViewer' = [studyPlanViewer EXCEPT
                              !.content = studyPlanViewer.saved,
                              !.data = ParseStudyPlan(studyPlanViewer.saved).val]
    /\ UNCHANGED <<session, pc, agent, topic, object, result, dataStream, artifact,
                   documents, now, objectIds, artifactDefinitions, console, streamText,
                   storeCalls, weather, flashcardViewer>>

MaxWeeks == 2
MaxTasks == 2

NextStudyPlanViewer ==
    \/ \E content \in PlanContents : StudyPlanViewerRenders(content)
    \/ \E weekIndex \in 0..(MaxWeeks - 1), taskIndex \in 0..(MaxTasks - 1) :
          ToggleTask(weekIndex, taskIndex)
    \/ \E weekIndex \in 0..(MaxWeeks - 1) : SetExpandedWeek(weekIndex)
    \/ SavedContentRenders

SpecStudyPlanViewer == Init /\ [][NextStudyPlanViewer]_vars

\* ------------------------------------------------------ the POST handler
\* stopWhen: stepCountIs(5)
StepBudget == 5
\* Steps one behaviour follows streamText for.
MaxSteps == 6

StepCountIs(n, st) == st.steps = n

\* A stop condition that lets one more step through.
StopWhenOneStepLater(st) == StepCountIs(StepBudget + 1, st)

StopWhen(st) == StepCountIs(StepBudget, st)

\* streamText runs another step when the last one asked for a tool, the
\* tool's result is in, and the stop condition does not hold.
LoopContinues ==
    /\ NoneInFlight
    /\ \/ streamText.steps = 0
       \/ streamText.finishReason = "tool-calls" /\ ~StopWhen(streamText)
    /\ streamText.steps < MaxSteps

\* The tools object: key -> the agentName of the unit behind it.
AgentName(toolName) == IF toolName = "quizMaster" THEN "quiz-master" ELSE toolName
\* execute's `topic` (analyst: `content`), once the input has parsed.
Argument(toolName, input) ==
    IF toolName = "analyst" THEN input.content.string ELSE input.topic.string

ToolCallStep(toolName, input) ==
    [steps |-> streamText.steps + 1,
     finishReason |-> "tool-calls",
     toolCall |-> [toolName |-> toolName, input |-> input,
                   issues |-> SafeParseIssues(toolName, input)],
     chunks |-> streamText.chunks + 1]

\* The model asks for a tool with an input its inputSchema rejects: the
\* call gets an error result and execute is not called.
InvalidToolCall(toolName, input) ==
    /\ LoopContinues
    /\ SafeParseIssues(toolName, input) # {}
    /\ streamText' = ToolCallStep(toolName, input)
    /\ UNCHANGED <<session, pc, agent, topic, object, result, dataStream, artifact,
                   documents, now, objectIds, artifactDefinitions, console, storeCalls, weather, flashcardViewer, studyPlanViewer>>

\* getWeather's execute: resolves with the placeholder object.
GetWeatherToolCall(input) ==
    /\ LoopContinues
    /\ SafeParseIssues("getWeather", input) = {}
    /\ streamText' = ToolCallStep("getWeather", input)
    /\ UNCHANGED <<session, pc, agent, topic, object, result, dataStream, artifact,
                   documents, now, objectIds, artifactDefinitions, console, storeCalls, weather, flashcardViewer, studyPlanViewer>>

\* planner / quizMaster with an input that parses: execute starts.
ArtifactToolCall(inv, toolName, input) ==
    /\ LoopContinues
    /\ toolName \in {"planner", "quizMaster"}
    /\ SafeParseIssues(toolName, input) = {}
    /\ streamText' = ToolCallStep(toolName, input)
    /\ ArtifactExecuteBegins(inv, AgentName(toolName), Argument(toolName, input))

\* tutor / analyst with an input that parses: execute starts.
DirectToolCall(inv, toolName, input) ==
    /\ LoopContinues
    /\ toolName \in {"tutor", "analyst"}
    /\ SafeParseIssues(toolName, input) = {}
    /\ streamText' = ToolCallStep(toolName, input)
    /\ DirectExecuteBegins(inv, AgentName(toolName), Argument(toolName, input))

\* The model answers with text: the last step.
TextStep ==
    /\ LoopContinues
    /\ streamText' = [steps |-> streamText.steps + 1,
                      finishReason |-> "stop",
                      toolCall |-> NoToolCall,
                      chunks |-> streamText.chunks + 1]
    /\ UNCHANGED <<session, pc, agent, topic, object, result, dataStream, artifact,
                   documents, now, objectIds, artifactDefinitions, console, storeCalls, weather, flashcardViewer, studyPlanViewer>>

\* One request to the POST handler: the model drives the tools through
\* streamText (a chat model, for which the five tools are active), whatever
\* it asks for at each step; the units' own model calls and the store answer.
NextOrchestrator ==
    \/ \E toolName \in ToolNames : \E input \in Inputs(toolName) :
          InvalidToolCall(toolName, input)
    \/ \E input \in Inputs("getWeather") : GetWeatherToolCall(input)
    \/ \E inv \in Invocations, toolName \in ToolNames :
          \E input \in Inputs(toolName) : ArtifactToolCall(inv, toolName, input)
    \/ \E inv \in Invocations, toolName \in ToolNames :
          \E input \in Inputs(toolName) : DirectToolCall(inv, toolName, input)
    \/ TextStep
    \/ \E inv \in Invocations :
          \E o \in Objects(agent[inv], topic[inv]) : GenerateObjectResolves(inv, o)
    \/ \E inv \in Invocations : SaveDocumentResolves(inv)
    \/ \E inv \in Invocations : GenerateTextResolves(inv)

SpecOrchestrator == Init /\ [][NextOrchestrator]_vars

\* ------------------------------------------------------------- claims
IsArtifactInvocation(inv) == agent[inv] \in ArtifactAgents
PartsOf(inv) == SelectSeq(dataStream, LAMBDA p : p.inv = inv)
TypesOf(inv) == [i \in 1..Len(PartsOf(inv)) |-> PartsOf(inv)[i].type]
IsDelta(type) == type \in {"data-flashcardDelta", "data-studyPlanDelta"}
FinishCount(inv) == Cardinality({i \in 1..Len(TypesOf(inv)) : TypesOf(inv)[i] = "data-finish"})
EndsWithFinish(inv) ==
    /\ Len(TypesOf(inv)) > 0
    /\ TypesOf(inv)[Len(TypesOf(inv))] = "data-finish"
Generated(inv) == "questions" \in DOMAIN object[inv] \/ "weeks" \in DOMAIN object[inv]
GenerationThrew(inv) == IsArtifactInvocation(inv) /\ pc[inv] = "done" /\ ~Generated(inv)
Saved(inv) == \E i \in 1..Len(documents) : documents[i].id = RandomUUID(inv)
SaveThrew(inv) ==
    /\ IsArtifactInvocation(inv) /\ pc[inv] = "done" /\ Generated(inv)
    /\ session # "none" /\ ~Saved(inv)

\* C1 (as claimed): every finished invocation of an artifact-producing unit
\* has written exactly one data-finish, and it is the last part it wrote, on
\* every exit path, the store write throwing included.
C1_ExactlyOneFinishLast ==
    \A inv \in Invocations :
        (IsArtifactInvocation(inv) /\ pc[inv] = "done")
            => (FinishCount(inv) = 1 /\ EndsWithFinish(inv))

\* C2: when generateObject throws, the unit has written data-finish by the
\* time it returns, and what it returns is a Failure whose summary carries
\* the error; the exception never leaves execute.
C2_FinishThenFailure ==
    \A inv \in Invocations :
        GenerationThrew(inv)
            => /\ result[inv].state = "returned"
               /\ result[inv].success = FALSE
               /\ result[inv].summary[1] = "Failed to generate"
               /\ FinishCount(inv) = 1
               /\ EndsWithFinish(inv)

C2_Witness ==
    \E inv \in Invocations :
        GenerationThrew(inv) /\ result[inv].summary[4] = "Unknown error"

\* C3: the parts of one artifact creation start with data-id, data-title,
\* data-kind, data-clear, each written once and in that order; every content
\* delta comes after them and before every data-finish.
C3_OpeningOrder ==
    \A inv \in Invocations :
        (IsArtifactInvocation(inv) /\ pc[inv] # "idle")
            => LET types == TypesOf(inv)
               IN  /\ Len(types) >= 4
                   /\ SubSeq(types, 1, 4) = <<"data-id", "data-title", "data-kind", "data-clear">>
                   /\ \A i \in 5..Len(types) :
                         types[i] \notin {"data-id", "data-title", "data-kind", "data-clear"}
                   /\ \A i, j \in 1..Len(types) :
                         (IsDelta(types[i]) /\ types[j] = "data-finish") => i < j

C3_Witness ==
    \E inv \in Invocations :
        /\ IsArtifactInvocation(inv) /\ pc[inv] = "done"
        /\ \E i \in 1..Len(TypesOf(inv)) : IsDelta(TypesOf(inv)[i])
        /\ FinishCount(inv) = 2

\* C4 (as claimed): when saveDocument fails after the delta and data-finish
\* were written, the unit returns Success and writes nothing more.
C4_SaveFailureOnlyLogged ==
    \A inv \in Invocations :
        SaveThrew(inv)
            => /\ result[inv].state = "returned"
               /\ result[inv].success = TRUE
               /\ Len(PartsOf(inv)) = 6

\* C5 (as claimed): every finished invocation, tutor and analyst included,
\* gave the caller an AgentResult; no exception left execute.
C5_AlwaysAgentResult ==
    \A inv \in Invocations :
        pc[inv] = "done" => result[inv].state = "returned"


\* The artifact after the first k parts of the batch a DataStreamHandler step
\* starts on in the current state.
ArtifactAfter(k) == HandleDeltas(artifact.kind, SubSeq(dataStream, 1, k), artifact)

\* What C6 says of one part, given the artifact before and after it.
ReducedAsClaimed(delta, before, after) ==
    /\ delta.type = "data-id" =>
         after = [before EXCEPT !.documentId = delta.data, !.status = "streaming"]
    /\ delta.type = "data-title" =>
         after = [before EXCEPT !.title = delta.data, !.status = "streaming"]
    /\ delta.type = "data-kind" =>
         after = [before EXCEPT !.kind = delta.data, !.status = "streaming"]
    /\ delta.type = "data-clear" =>
         after = [before EXCEPT !.content = <<>>, !.status = "streaming"]
    /\ IsDelta(delta.type) =>
         (before.status = "streaming" => after.status = "streaming")
    /\ delta.type = "data-finish" => after.status = "idle"

\* ReducedAsClaimed along a batch, part by part.
RECURSIVE BatchReducedAsClaimed(_, _, _)
BatchReducedAsClaimed(renderKind, deltas, draft) ==
    \/ Len(deltas) = 0
    \/ LET after == HandleDelta(renderKind, Head(deltas), draft)
       IN  /\ ReducedAsClaimed(Head(deltas), draft, after)
           /\ BatchReducedAsClaimed(renderKind, Tail(deltas), after)

\* C6: in every batch DataStreamHandler handles, data-id, data-title,
\* data-kind and data-clear change only their own field and set status
\* 'streaming'; a content delta leaves a 'streaming' status 'streaming'; and
\* data-finish sets status 'idle' whatever the state before it.
C6_ReducerStatus ==
    [][Len(dataStream') < Len(dataStream) =>
        LET n == Len(dataStream) - Len(dataStream')
        IN  /\ artifact' = ArtifactAfter(n)
            /\ BatchReducedAsClaimed(artifact.kind, NewDeltas(n), artifact)
    ]_vars

\* A data-finish was handled for an artifact that never received content.
C6_Witness ==
    \E inv \in Invocations :
        /\ GenerationThrew(inv)
        /\ artifact.documentId = RandomUUID(inv)
        /\ artifact.status = "idle"
        /\ artifact.content = <<>>

\* Nothing in flight and nothing left to handle.
AtRest == NoneInFlight /\ dataStream = <<>>

\* The parts a successful creation writes.
WrittenOnSuccess(inv) ==
    OpeningParts(inv, agent[inv], topic[inv])
        \o ContentParts(inv, agent[inv], Stringify(agent[inv], object[inv]))

\* The reducer fed one part per render.
RECURSIVE EachInOwnBatch(_, _)
EachInOwnBatch(parts, draft) ==
    IF Len(parts) = 0 THEN draft
    ELSE EachInOwnBatch(Tail(parts), HandleDeltas(draft.kind, <<Head(parts)>>, draft))

\* C7 (as claimed): however the parts of one successful creation are split
\* into batches, the client ends in the state it reaches when every part
\* arrives in its own batch.
C7_BatchSplitIrrelevant ==
    ( /\ IsArtifactInvocation(1) /\ pc[1] = "done" /\ Generated(1)
      /\ result[1].success
      /\ \A inv \in Invocations : inv > 1 => pc[inv] = "idle"
      /\ dataStream = <<>> )
        => artifact = EachInOwnBatch(WrittenOnSuccess(1), InitialArtifactData)

\* C8 (as claimed): the client attributes parts to their artifact by id: the
\* artifact shown under an invocation's id is not idle while that invocation
\* is still generating, and at rest it has that invocation's title and kind
\* and no content but its own.
C8_AttributedById ==
    \A inv \in Invocations :
        (IsArtifactInvocation(inv) /\ artifact.documentId = RandomUUID(inv))
            => /\ artifact.status = "idle" => pc[inv] # "generateObject"
               /\ AtRest =>
                    /\ artifact.title = Title(agent[inv], topic[inv])
                    /\ artifact.kind = Kind(agent[inv])
                    /\ \/ artifact.content = <<>>
                       \/ /\ Generated(inv)
                          /\ artifact.content = Stringify(agent[inv], object[inv])

\* C9 (as claimed): the client does not stay 'streaming' for good: once
\* nothing is in flight and every written part is handled, an abandoned
\* creation included, the artifact has left 'streaming'.
C9_NoStreamingAtRest == AtRest => artifact.status # "streaming"

Parse(a, toks) == IF a = "quiz-master" THEN ParseFlashcard(toks) ELSE ParseStudyPlan(toks)

\* C10 (as claimed): after a successful creation is handled, artifact.content
\* is the string the unit serialized, and parsing it gives back the object
\* the unit generated.
C10_RoundTrip ==
    \A inv \in Invocations :
        ( /\ IsArtifactInvocation(inv) /\ pc[inv] = "done" /\ Generated(inv)
          /\ result[inv].success
          /\ AtRest
          /\ artifact.documentId = RandomUUID(inv) )
            => /\ artifact.content = Stringify(agent[inv], object[inv])
               /\ Parse(agent[inv], artifact.content).ok
               /\ Parse(agent[inv], artifact.content).val = object[inv]

\* ------------------------------------------------- claims on the store
SortedAscending(r) == \A i \in 1..(Len(r) - 1) : r[i].createdAt <= r[i + 1].createdAt
Greatest(d, id) == \A v \in Records(Find(id)) : v.createdAt <= d.createdAt

C13_KindConstantPerId ==
    \A d, e \in Records(documents) : d.id = e.id => d.kind = e.kind

\* ---------------------------------------- claims on units and the store
Streamed(inv, type, data) ==
    \E i \in 1..Len(PartsOf(inv)) : PartsOf(inv)[i].type = type /\ PartsOf(inv)[i].data = data
DeltaBeforeFinish(inv) ==
    \E i, j \in 1..Len(PartsOf(inv)) :
        i < j /\ IsDelta(PartsOf(inv)[i].type) /\ PartsOf(inv)[j].type = "data-finish"

\* C20: a record is in the store only for an authenticated session, only for
\* an invocation that generated its object, wrote the content delta and the
\* finish, and returned Success, once per invocation, and with the id,
\* title, kind and content that invocation streamed; for an unauthenticated
\* caller the store stays empty and a unit that generated its object still
\* returns Success.
C20_StoreWriteOnlyAfterStreaming ==
    /\ \A d \in Records(documents) :
          /\ session # "none"
          /\ d.userId = session
          /\ \E inv \in Invocations :
                /\ IsArtifactInvocation(inv)
                /\ Generated(inv)
                /\ DeltaBeforeFinish(inv)
                /\ Streamed(inv, "data-id", d.id)
                /\ Streamed(inv, "data-title", d.title)
                /\ Streamed(inv, "data-kind", d.kind)
                /\ Streamed(inv, DeltaType(agent[inv]), d.content)
                /\ result[inv].state = "returned"
                /\ result[inv].success
          /\ \A e \in Records(documents) : e.id = d.id => e = d
    /\ session = "none" =>
          /\ documents = << >>
          /\ \A inv \in Invocations :
                (IsArtifactInvocation(inv) /\ Generated(inv))
                    => (pc[inv] = "done" /\ result[inv].state = "returned" /\ result[inv].success)

\* An authenticated invocation saved its artifact and returned.
C20_Witness ==
    \E inv \in Invocations :
        /\ Saved(inv)
        /\ pc[inv] = "done"
        /\ result[inv].success
        /\ \E other \in Invocations : SaveThrew(other)

\* ------------------------------------------------ claims on the panel
OpeningTypes == {"data-id", "data-title", "data-kind", "data-clear"}

\* The client has handled the four opening parts of the invocation.
OpeningHandled(inv) ==
    /\ IsArtifactInvocation(inv)
    /\ pc[inv] # "idle"
    /\ \A i \in 1..Len(dataStream) :
          dataStream[i].inv = inv => dataStream[i].type \notin OpeningTypes

\* C19 (as claimed): once the client has handled SetId, SetTitle, SetKind
\* and Clear of a new artifact, the panel is open (isVisible), whether or
\* not a content delta ever follows.
C19_PanelOpenAfterOpening ==
    \A inv \in Invocations :
        (OpeningHandled(inv) /\ artifact.documentId = RandomUUID(inv))
            => artifact.isVisible

\* ------------------------------------------------- claims on the quiz
QuizPayloads ==
    {dataStream[i].data : i \in {j \in 1..Len(dataStream) : dataStream[j].type = "data-flashcardDelta"}}
        \cup {d.content : d \in {e \in Records(documents) : e.kind = "flashcard"}}

\* C17 (as claimed): every quiz payload written to the channel or saved
\* parses to a quiz in which every question has exactly 4 options and a
\* correctAnswer that is one of the integers 0, 1, 2, 3.
C17_QuizWellFormed ==
    \A payload \in QuizPayloads :
        LET quiz == ParseFlashcard(payload)
        IN /\ quiz.ok
           /\ \A i \in 1..Len(quiz.val.questions) :
                 /\ Len(quiz.val.questions[i].options) = 4
                 /\ quiz.val.questions[i].correctAnswer \in {Whole(0), Whole(1), Whole(2), Whole(3)}

\* --------------------------------------- claims on missing definitions
Has(batch, type) == \E i \in 1..Len(batch) : batch[i].type = type
LastData(batch, type) ==
    batch[CHOOSE i \in 1..Len(batch) :
            /\ batch[i].type = type
            /\ \A j \in (i + 1)..Len(batch) : batch[j].type # type].data

\* Every SetId, SetTitle, SetKind, Clear and Finish of the batch took effect.
MetaApplied(batch, before, after) ==
    /\ after.documentId =
          IF Has(batch, "data-id") THEN LastData(batch, "data-id") ELSE before.documentId
    /\ after.title =
          IF Has(batch, "data-title") THEN LastData(batch, "data-title") ELSE before.title
    /\ after.kind =
          IF Has(batch, "data-kind") THEN LastData(batch, "data-kind") ELSE before.kind
    /\ batch[Len(batch)].type \in OpeningTypes => after.status = "streaming"
    /\ batch[Len(batch)].type = "data-finish" => after.status = "idle"

\* No content delta of the batch took effect.
DeltaIgnored(batch, before, after) ==
    /\ after.content = IF Has(batch, "data-clear") THEN << >> ELSE before.content
    /\ after.isVisible = before.isVisible

\* C18: whenever DataStreamHandler handles a batch, thrown onStreamPart or
\* not, every SetId, SetTitle, SetKind, Clear and Finish of the batch is
\* applied to the artifact and the whole batch is taken off the stream; when
\* the artifact kind of the render has no registered definition, a warning
\* is logged and the content deltas of the batch are ignored.
C18_NoDefinitionNoCrash ==
    [][Len(dataStream') < Len(dataStream) =>
          LET n == Len(dataStream) - Len(dataStream')
              batch == NewDeltas(n)
          IN /\ dataStream' = SubSeq(dataStream, n + 1, Len(dataStream))
             /\ MetaApplied(batch, artifact, artifact')
             /\ artifact.kind \notin artifactDefinitions =>
                   /\ DeltaIgnored(batch, artifact, artifact')
                   /\ console'.warn]_vars

\* A quiz or plan was generated and streamed while its kind had no
\* definition: the finish was applied, the content was not, a warning was
\* logged; and some onStreamPart has thrown before.
C18_Witness ==
    /\ artifact.kind \notin artifactDefinitions
    /\ artifact.status = "idle"
    /\ artifact.content = << >>
    /\ dataStream = << >>
    /\ console.warn
    /\ console.error
    /\ \E inv \in Invocations :
          Generated(inv) /\ RandomUUID(inv) = artifact.documentId /\ pc[inv] = "done"

\* Every step so far asked for a tool and the last tool result is in.
AskedForAToolEveryStep == streamText.finishReason = "tool-calls" /\ NoneInFlight
Executed == {inv \in Invocations : pc[inv] # "idle"}

\* C14: with stopWhen: stepCountIs(5), a model that asks for a tool at
\* every step is asked again while fewer than 5 steps have run and never
\* after the 5th: no step and no execute starts beyond the budget, each
\* execute belongs to one of the steps, and what the 5 steps streamed is
\* there when the loop stops.
C14_StopsAtStepBudget ==
    /\ [](/\ streamText.steps <= StepBudget
          /\ Cardinality(Executed) <= streamText.steps
          /\ streamText.steps = StepBudget => streamText.chunks >= StepBudget
          /\ AskedForAToolEveryStep /\ streamText.steps < StepBudget
                => ENABLED (\E input \in Inputs("getWeather") : GetWeatherToolCall(input)))
    /\ [][streamText.steps = StepBudget
             => streamText' = streamText /\ Executed' = Executed]_vars

\* Five steps with a tool call each, one of them a unit that returned
\* Success.
C14_Witness ==
    /\ streamText.steps = StepBudget
    /\ AskedForAToolEveryStep
    /\ \E inv \in Invocations : pc[inv] = "done" /\ result[inv].success

\* What makes an argument object invalid, key by key: a required key is
\* missing, or the value has another type than declared, or a number is
\* outside its declared range, or a string is not one of the enum's values.
RequiredKeys(toolName) ==
    CASE toolName = "analyst" -> {"content"}
      [] toolName = "getWeather" -> {}
      [] OTHER -> {"topic"}
Declared(z) == IF z.zod = "optional" THEN z.inner ELSE z
DeclaredType(z) ==
    CASE Declared(z).zod \in {"string", "enum"} -> "string"
      [] Declared(z).zod \in {"number", "numberMinMax"} -> "number"
      [] Declared(z).zod = "arrayOfString" -> "array"
WrongType(z, v) == v.type # "undefined" /\ v.type # DeclaredType(z)
OutOfRange(z, v) ==
    /\ Declared(z).zod = "numberMinMax"
    /\ v.type = "number"
    /\ Twice(v.number) < Twice(Declared(z).min) \/ Twice(v.number) > Twice(Declared(z).max)
Unlisted(z, v) ==
    /\ Declared(z).zod = "enum"
    /\ v.type = "string"
    /\ v.string \notin Declared(z).values
Offending(toolName, input) ==
    {key \in DOMAIN input :
        \/ key \in RequiredKeys(toolName) /\ input[key].type = "undefined"
        \/ WrongType(InputSchema(toolName)[key], input[key])
        \/ OutOfRange(InputSchema(toolName)[key], input[key])
        \/ Unlisted(InputSchema(toolName)[key], input[key])}

\* C16: a tool call whose argument object misses a required field or has
\* a field of the wrong type, out of range or not in its enum gets an
\* error result that names every such field, and execute is not reached:
\* the step starts no invocation, writes nothing to the channel, leaves the
\* store and every unit's result as they were.
C16_InvalidInputNeverExecutes ==
    [][streamText'.steps = streamText.steps + 1 /\ streamText'.toolCall.toolName # ""
          => LET call == streamText'.toolCall
                 offending == Offending(call.toolName, call.input)
             IN  offending # {}
                    => /\ offending \subseteq call.issues
                       /\ pc' = pc
                       /\ agent' = agent
                       /\ dataStream' = dataStream
                       /\ documents' = documents
                       /\ result' = result]_vars

\* quizMaster was asked for 11 questions of difficulty "extreme" after a
\* unit had run: the error result names both fields and nothing else moved.
C16_Witness ==
    /\ streamText.toolCall.toolName = "quizMaster"
    /\ streamText.toolCall.issues = {"numberOfQuestions", "difficulty"}
    /\ \E inv \in Invocations :
          /\ pc[inv] = "done"
          /\ \A other \in Invocations : other # inv => pc[other] = "idle"
    /\ Len(documents) <= 1

\* ------------------------------------------------ claims on the payload
Deltas(inv) == SelectSeq(PartsOf(inv), LAMBDA p : IsDelta(p.type))
Schema(a, o) == IF a = "quiz-master" THEN FlashcardSchema(o) ELSE o \in StudyPlanObjects(o.topic)

\* C22 (as claimed): a creation that returned Success wrote exactly one
\* content delta, the complete serialization of the schema-validated object
\* (it parses back to that object); a creation that returned Failure wrote
\* no content delta at all.
C22_OneCompleteDeltaOrNone ==
    \A inv \in Invocations :
        (IsArtifactInvocation(inv) /\ pc[inv] = "done" /\ result[inv].state = "returned")
            => IF result[inv].success
               THEN /\ Len(Deltas(inv)) = 1
                    /\ Deltas(inv)[1].type = DeltaType(agent[inv])
                    /\ Deltas(inv)[1].data = Stringify(agent[inv], object[inv])
                    /\ Schema(agent[inv], object[inv])
                    /\ Parse(agent[inv], Deltas(inv)[1].data).ok
                    /\ Parse(agent[inv], Deltas(inv)[1].data).val = object[inv]
               ELSE Len(Deltas(inv)) = 0

\* ------------------------------------------------ claims on direct units
\* C23: no step of a tutor or analyst invocation (start, generateText
\* resolving or rejecting) writes a part to the channel or touches the
\* store, and no part on the channel and no stored record carries its id.
C23_DirectUnitsNoArtifact ==
    [][\A inv \in Invocations :
          (agent'[inv] \in DirectAgents /\ pc'[inv] # pc[inv])
              => /\ dataStream' = dataStream
                 /\ documents' = documents
                 /\ objectIds' = objectIds
                 /\ PartsOf(inv)' = << >>
                 /\ ~Saved(inv)']_vars

\* A direct unit returned its text and another one threw, next to an
\* artifact already on the channel.
C23_Witness ==
    /\ \E inv \in Invocations :
          agent[inv] \in DirectAgents /\ pc[inv] = "done" /\ result[inv].state = "returned"
    /\ \E inv \in Invocations :
          agent[inv] \in DirectAgents /\ pc[inv] = "done" /\ result[inv].state # "returned"

\* ------------------------------------------------ claims on the reducer
FinishPart == Part("data-finish", "null", 1)
RenderKinds == artifactDefinitions \cup {artifact.kind}

\* C26: handling a second data-finish, in the same batch as the first or
\* in a later one, gives the artifact the first one gave: status idle and
\* documentId, title, kind, content and isVisible as they were.
C26_FinishIdempotent ==
    \A renderKind \in RenderKinds :
        LET once == HandleDelta(renderKind, FinishPart, artifact)
        IN  /\ once = [artifact EXCEPT !.status = "idle"]
            /\ HandleDelta(renderKind, FinishPart, once) = once
            /\ HandleDelta(once.kind, FinishPart, once) = once
            /\ HandleDeltas(renderKind, <<FinishPart, FinishPart>>, artifact) = once

\* A creation whose save threw wrote two data-finish parts, and the client
\* has handled both.
C26_Witness ==
    \E inv \in Invocations :
        /\ SaveThrew(inv)
        /\ dataStream = << >>
        /\ artifact.documentId = RandomUUID(inv)
        /\ artifact.status = "idle"

\* Parts of every type, with data the artifact does not hold yet.
ProbeTypes ==
    {"data-id", "data-title", "data-kind", "data-clear", "data-finish",
     "data-flashcardDelta", "data-studyPlanDelta", "data-usage"}
ProbeData(type) ==
    CASE type = "data-id" -> 99
      [] type = "data-kind" -> "sheet"
      [] type \in {"data-clear", "data-finish"} -> "null"
      [] OTHER -> <<"probe">>
OwnField(type) ==
    CASE type = "data-id" -> "documentId"
      [] type = "data-title" -> "title"
      [] type = "data-kind" -> "kind"
      [] type = "data-clear" -> "content"
      [] type = "data-finish" -> "status"
OnlyChanged(before, after, field) ==
    \A f \in DOMAIN before \ {field, "status"} : after[f] = before[f]

SavesInFlight == {call \in storeCalls : call.op = "saveDocument"}
Completed(call) == call \in storeCalls /\ call \notin storeCalls'

\* C21: whatever the interleaving of saveDocument calls, the insert of one
\* call adds its record and changes no other record, of its id or of any
\* other; so every document built so far is either still being inserted
\* or stored, once.
C21_NoLostWrite ==
    /\ [](\A k \in 1..objectIds :
             \/ \E call \in SavesInFlight : call.document._id = k
             \/ Cardinality({i \in 1..Len(documents) : documents[i]._id = k}) = 1)
    /\ [][\A call \in SavesInFlight :
             Completed(call)
                => /\ Records(documents') = Records(documents) \cup {call.document}
                   /\ Len(documents') = Len(documents) + 1
                   /\ \A id \in DocumentIds :
                         id # call.document.id => Find(id)' = Find(id)]_vars

\* Two saves to one id were in flight together, the later-built one was
\* inserted first, and both versions are stored.
C21_Witness ==
    /\ storeCalls = {}
    /\ weather = NotCalled
    /\ flashcardViewer = NotMounted
    /\ studyPlanViewer = NotMounted
    /\ Len(documents) >= 2
    /\ documents[1].id = documents[2].id
    /\ documents[1]._id > documents[2]._id
    /\ documents[1].createdAt > documents[2].createdAt

DeletesInFlight == {call \in storeCalls : call.op = "deleteDocumentsByIdAfterTimestamp"}

\* C25 (as claimed): when deleteDocumentsByIdAfterTimestamp(id, t) ends,
\* the records it returns are exactly the records it removed, these are
\* exactly the versions of id with createdAt > t, and every other record
\* is left as it was, whatever ran between its find and its deleteMany.
C25_DeleteReturnsWhatItRemoves ==
    [][\A call \in DeletesInFlight :
          Completed(call)
             => LET removed == Records(documents) \ Records(documents')
                IN  /\ Records(call.result) = removed
                    /\ removed = {d \in Records(documents) :
                                     d.id = call.id /\ d.createdAt > call.timestamp}
                    /\ documents' = SelectSeq(documents, LAMBDA d : d \notin removed)]_vars

\* ------------------------------------------------ claims on getWeather
Called == weather.pc # "idle"
CityGiven == weather.input.city.type = "string" /\ weather.input.city.string # ""
BothCoordinatesGiven ==
    weather.input.latitude # Undefined /\ weather.input.longitude # Undefined
GeocodingFailed == "geocoding" \in DOMAIN weather /\ weather.geocoding # "found"
ReturnedError ==
    weather.pc = "returned" /\ "error" \in DOMAIN weather.output
ForecastsFetched == SelectSeq(weather.fetched, LAMBDA request : request.api = "forecast")

QuizLength == Len(Data(flashcardViewer).questions)

\* C28: on a quiz of n >= 1 questions, after any clicks,
\* 0 <= score.correct <= score.total <= currentIndex + 1 <= n; a click
\* on an option of an answered question leaves the state as it is; Next
\* on the answered last question gives index 0, no selection, no
\* explanation and score 0/0.
C28_ScoreWithinProgress ==
    (ShowsQuiz(flashcardViewer) /\ QuizLength >= 1)
        => /\ 0 <= flashcardViewer.score.correct
           /\ flashcardViewer.score.correct <= flashcardViewer.score.total
           /\ flashcardViewer.score.total <= flashcardViewer.currentIndex + 1
           /\ flashcardViewer.currentIndex + 1 <= QuizLength
           /\ IsAnswered(flashcardViewer)
                 => \A index \in 0..3 :
                       AfterSelectAnswer(flashcardViewer, index) = flashcardViewer
           /\ (IsAnswered(flashcardViewer)
               /\ flashcardViewer.currentIndex = QuizLength - 1)
                 => AfterNext(flashcardViewer) =
                       InitialViewerState(flashcardViewer.content)

\* The last of several questions is answered after a restart, with a
\* right answer counted before.
C28_Witness ==
    /\ ShowsQuiz(flashcardViewer)
    /\ QuizLength >= 2
    /\ flashcardViewer.currentIndex = QuizLength - 1
    /\ IsAnswered(flashcardViewer)
    /\ flashcardViewer.score.correct >= 1
    /\ flashcardViewer.score.correct < flashcardViewer.score.total

\* C29 (as claimed): whenever the viewer gets as far as rendering a
\* question, currentIndex is an index of data.questions.
C29_CurrentIndexValid ==
    ShowsQuiz(flashcardViewer)
        => flashcardViewer.currentIndex \in 0..(QuizLength - 1)

\* The tasks of a plan, by week and position (from 0, as toggleTask counts).
TaskIndexes(plan) ==
    {<<w, t>> \in (0..(MaxWeeks - 1)) \X (0..(MaxTasks - 1)) :
        w < Len(plan.weeks) /\ t < Len(plan.weeks[w + 1].tasks)}
TaskAt(plan, wt) == plan.weeks[wt[1] + 1].tasks[wt[2] + 1]
\* `after` is `before` with the one task's completed negated, field by field.
DiffersOnlyAt(before, after, wt) ==
    /\ \A f \in {"topic", "duration", "overview", "tips"} : after[f] = before[f]
    /\ Len(after.weeks) = Len(before.weeks)
    /\ \A i \in 1..Len(before.weeks) :
          /\ \A f \in {"week", "title", "goals", "resources"} :
                after.weeks[i][f] = before.weeks[i][f]
          /\ Len(after.weeks[i].tasks) = Len(before.weeks[i].tasks)
          /\ \A j \in 1..Len(before.weeks[i].tasks) :
                LET old == before.weeks[i].tasks[j]
                    new == after.weeks[i].tasks[j]
                IN  /\ new.task = old.task
                    /\ new.duration = old.duration
                    /\ new.completed = (IF <<i - 1, j - 1>> = wt THEN ~old.completed
                                        ELSE old.completed)
SavedBy(plan, wt) == StringifyStudyPlan(ToggleTaskData(plan, wt[1], wt[2]))
Displayed == ParseStudyPlan(studyPlanViewer.content).val

====
